---- MODULE Spec2Model ----
(***************************************************************************)
(* Burst-Fit: the pulse-burst signal model (BurstFunction), its pulse      *)
(* shape (GaussianExp) and the regression engine (Fitter).                 *)
(*                                                                         *)
(* Numbers.  Times are integers in units of 1.25 ps (1.25e-12 s), the      *)
(* largest unit in which every timing constant of constants.py is an       *)
(* integer.  The decay rate lambda is an integer in units of 5e8 1/s,      *)
(* which is 1/LAM_DEN per time unit.  A pulse-shape value exp(-q) is kept  *)
(* exactly, as the rational exponent q = num/den in lowest terms.  R^2 and *)
(* the threshold are integers in units of 1e-4.                            *)
(***************************************************************************)
EXTENDS Integers, Sequences, FiniteSets, TLC

VARIABLES
    t0,              \* BurstFunction._t0
    n_pulses,        \* BurstFunction._n_pulses
    ptype,           \* BurstFunction.ptype
    t_start,         \* BurstFunction.t_start
    t_end,           \* BurstFunction.t_end
    parameters,      \* GaussianExp.parameters  <<sigma, lambda>>
    param_num,       \* GaussianExp.param_num
    delta_t,         \* GaussianExp.delta_t  (rational [num, den], time units)
    h2,              \* GaussianExp.h2       (shape value)
    make_performant, \* GaussianExp.make_performant
    results,         \* Fitter.results
    name,            \* Fitter.name
    fit_qual_thresh, \* Fitter._fit_qual_thresh
    data_trc,        \* a DataTrace: its fields, as a record
    NoT0Val,         \* the class NoT0Val: its attribute, and its instances
    ret              \* outcome of the last call: what it returned or raised

bfVars    == <<t0, n_pulses, ptype, t_start, t_end>>
shapeVars == <<parameters, param_num, delta_t, h2, make_performant>>
fitVars   == <<results, name, fit_qual_thresh>>
vars      == <<bfVars, shapeVars, fitVars, data_trc, NoT0Val, ret>>

\* Python's None; a stored fit is kept as the one-element tuple <<fit>>
None == << >>

----------------------------------------------------------------------------
(* constants.py, in units of 1.25 ps *)

PERIOD == 15108
DELTA_1 == 3987
DELTA_2 == 3786
DELTA_3 == 3523
DELTA_4 == 3812

TAU_1 == DELTA_1
TAU_2 == DELTA_1 + DELTA_2
TAU_3 == DELTA_1 + DELTA_2 + DELTA_3

PULSE_WIDTH == 3776

TraceType == {"PUMP", "REFLECTED", "TRANSMITTED"}

TRACE_DELAY_IDX(pt) ==
    CASE pt = "PUMP" -> 0
      [] pt = "REFLECTED" -> 0
      [] pt = "TRANSMITTED" -> 0

\* lambda is counted in units of 5e8 1/s = 1/1600 per time unit of 1.25 ps
LAM_DEN == 1600

----------------------------------------------------------------------------
(* bounds of the model *)

MaxPulses == 4      \* largest pulse count given to the constructor / set_n_pulses
MaxPulseIdx == 8    \* largest pulse index given to get_time_from_pulses
MaxArrLen == 2      \* longest index array given to get_time_from_pulses

----------------------------------------------------------------------------
(* arithmetic helpers *)

Abs(x) == IF x < 0 THEN -x ELSE x

Min(a, b) == IF a < b THEN a ELSE b

RECURSIVE GCD(_, _)
GCD(a, b) == IF b = 0 THEN Abs(a) ELSE GCD(b, a % Abs(b))

\* the exact value exp(-num/den), den > 0, in lowest terms
ExpNeg(num, den) ==
    LET g == GCD(num, den)
    IN  [num |-> num \div g, den |-> den \div g]

\* exp(-a) * exp(-b) = exp(-(a + b))
ExpMul(a, b) ==
    IF a.den = b.den
    THEN ExpNeg(a.num + b.num, a.den)
    ELSE ExpNeg(a.num * b.den + b.num * a.den, a.den * b.den)

\* np.isfinite of a float64 exp(x): exp overflows to inf from x = 710 on
\* (the exact edge, x > 709.78, is rounded to the next integer)
EXP_OVERFLOW == 710

IsFinite(v) == v.den # 0 /\ (-(v.num)) \div v.den < EXP_OVERFLOW

----------------------------------------------------------------------------
(* numpy arrays: functions over an index set; every operation elementwise *)

ArrMod(a, k) == [i \in DOMAIN a |-> a[i] % k]

ArrFloorDiv(a, k) == [i \in DOMAIN a |-> a[i] \div k]

ArrScale(c, a) == [i \in DOMAIN a |-> c * a[i]]

ArrAdd(a, b) == [i \in DOMAIN a |-> a[i] + b[i]]

\* np.arange(0, n, 1): the indices 0..n-1, empty when n <= 0
Arange(n) == [j \in 0..(n - 1) |-> j]

----------------------------------------------------------------------------
(* Timing model: burst_function.py *)

\* compare_func(value) of tau_function: 1 where the captured array (n mod 4)
\* equals value, else 0
compare_func(modarr, value) ==
    [i \in DOMAIN modarr |-> IF modarr[i] = value THEN 1 ELSE 0]

\* a slip: the index itself is compared, not the index mod 4
tau_function_no_mod(n) ==
    ArrAdd(ArrAdd(ArrScale(TAU_1, compare_func(n, 1)),
                  ArrScale(TAU_2, compare_func(n, 2))),
           ArrScale(TAU_3, compare_func(n, 3)))

tau_function(n) ==
    LET m == ArrMod(n, 4)
    IN  ArrAdd(ArrAdd(ArrScale(TAU_1, compare_func(m, 1)),
                      ArrScale(TAU_2, compare_func(m, 2))),
               ArrScale(TAU_3, compare_func(m, 3)))

\* a slip: the group length taken as TAU_3, the last gap DELTA_4 forgotten
get_time_from_pulses_short_period(n_vals) ==
    ArrAdd(ArrScale(TAU_3, ArrFloorDiv(n_vals, 4)), tau_function(n_vals))

\* a slip: the group index advances one pulse early
get_time_from_pulses_early_group(n_vals) ==
    ArrAdd(ArrScale(PERIOD,
                    ArrFloorDiv(ArrAdd(n_vals, [i \in DOMAIN n_vals |-> 1]), 4)),
           tau_function(n_vals))

get_time_from_pulses(n_vals) ==
    ArrAdd(ArrScale(PERIOD, ArrFloorDiv(n_vals, 4)), tau_function(n_vals))

\* the same call on one index (a 0-d array)
time_from_pulse(n) == get_time_from_pulses(<<n>>)[1]

----------------------------------------------------------------------------
(* Pulse shape: pulse_profiles.py, GaussianExp *)

\* a rational time num/den, den > 0, in lowest terms
Rat(num, den) ==
    LET g == GCD(num, den)
    IN  [num |-> num \div g, den |-> den \div g]

NaN == [num |-> 0, den |-> 0]
Inf == [num |-> -1, den |-> 0]

\* a slip: the transition point taken as lam * sig
shape_delta_t_linear(sig, lam) == Rat(lam * sig, LAM_DEN)

\* delta_t = lam * sig**2  (differentiability condition)
shape_delta_t(sig, lam) == Rat(lam * sig * sig, LAM_DEN)

\* h2 = exp(-delta_t**2 / (2 * sig**2))  (continuity condition)
shape_h2(dt, sig) == ExpNeg(dt.num * dt.num, 2 * sig * sig * dt.den * dt.den)

\* np.heaviside(x, h): 0 for x < 0, h for x = 0, 1 for x > 0; x = t - dt
heaviside(t, dt, h) ==
    LET x == t * dt.den - dt.num
    IN  IF x < 0 THEN "zero" ELSE IF x = 0 THEN "h" ELSE "one"

\* a slip: the branches exchanged, the tail before the transition point
blend_swapped(gaussian, exp_tail, step, h) ==
    IF ~IsFinite(exp_tail)
    THEN (IF step = "one" THEN NaN ELSE Inf)
    ELSE CASE step = "zero" -> exp_tail
           [] step = "one"  -> gaussian
           [] step = "h"    -> IF gaussian = exp_tail
                               THEN gaussian
                               ELSE [gaussian |-> gaussian,
                                     exp_tail |-> exp_tail, step |-> h]

\* gaussian * (1 - step) + exp_tail * step
blend(gaussian, exp_tail, step, h) ==
    IF ~IsFinite(exp_tail)
    THEN (IF step = "zero" THEN NaN ELSE Inf)          \* inf * 0 = nan
    ELSE CASE step = "zero" -> gaussian
           [] step = "one"  -> exp_tail
           [] step = "h"    -> IF gaussian = exp_tail
                               THEN gaussian           \* v*(1-h) + v*h = v
                               ELSE [gaussian |-> gaussian,
                                     exp_tail |-> exp_tail, step |-> h]

\* a slip: the Gaussian core centred on the transition point
shape_parts_shifted(t, sig, lam, dt, h) ==
    LET decay == ExpNeg(lam * (t * dt.den - dt.num), LAM_DEN * dt.den)
    IN  [step     |-> heaviside(t, dt, h),
         gaussian |-> ExpNeg((t * dt.den - dt.num) * (t * dt.den - dt.num),
                             2 * sig * sig * dt.den * dt.den),
         exp_tail |-> IF IsFinite(decay) THEN ExpMul(h, decay) ELSE Inf]

\* the two branches and the step function at one element t; where
\* np.exp(-lam * (t - delta_t)) overflows, h2 * inf is not finite
shape_parts(t, sig, lam, dt, h) ==
    LET decay == ExpNeg(lam * (t * dt.den - dt.num), LAM_DEN * dt.den)
    IN  [step     |-> heaviside(t, dt, h),
         gaussian |-> ExpNeg(t * t, 2 * sig * sig),
         exp_tail |-> IF IsFinite(decay) THEN ExpMul(h, decay) ELSE Inf]

\* a slip: only the first element of the tail is validated
pulse_shape_first_only(t, params, perf, own, own_dt, own_h2) ==
    LET sig == IF perf THEN own[1] ELSE params[1]
        lam == IF perf THEN own[2] ELSE params[2]
        dt  == IF perf THEN own_dt ELSE shape_delta_t(sig, lam)
        h   == IF perf THEN own_h2 ELSE shape_h2(dt, sig)
        parts == [i \in DOMAIN t |-> [j \in DOMAIN t[i] |->
                     shape_parts(t[i][j], sig, lam, dt, h)]]
        first_finite == \A i \in DOMAIN t : \A j \in DOMAIN t[i] :
                            (i = 1 /\ j = 1) => IsFinite(parts[i][j].exp_tail)
    IN  IF ~perf /\ ~first_finite
        THEN [status |-> "ValueError", value |-> None]
        ELSE [status |-> "ok",
              value  |-> [i \in DOMAIN t |-> [j \in DOMAIN t[i] |->
                             blend(parts[i][j].gaussian, parts[i][j].exp_tail,
                                   parts[i][j].step, h)]]]

\* GaussianExp.pulse_shape(t, *params) on a matrix t (rows of a function of
\* the column index).  perf, own, own_dt, own_h2 are the object's
\* make_performant, parameters, delta_t and h2.
pulse_shape(t, params, perf, own, own_dt, own_h2) ==
    LET sig == IF perf THEN own[1] ELSE params[1]
        lam == IF perf THEN own[2] ELSE params[2]
        dt  == IF perf THEN own_dt ELSE shape_delta_t(sig, lam)
        h   == IF perf THEN own_h2 ELSE shape_h2(dt, sig)
        parts == [i \in DOMAIN t |-> [j \in DOMAIN t[i] |->
                     shape_parts(t[i][j], sig, lam, dt, h)]]
        all_finite == \A i \in DOMAIN t : \A j \in DOMAIN t[i] :
                          IsFinite(parts[i][j].exp_tail)
    IN  IF ~perf /\ ~all_finite
        THEN [status |-> "ValueError", value |-> None]
        ELSE [status |-> "ok",
              value  |-> [i \in DOMAIN t |-> [j \in DOMAIN t[i] |->
                             blend(parts[i][j].gaussian, parts[i][j].exp_tail,
                                   parts[i][j].step, h)]]]

\* GaussianExp.norm_pulse_shape: the override, no normalisation
norm_pulse_shape(t, params, perf, own, own_dt, own_h2) ==
    pulse_shape(t, params, perf, own, own_dt, own_h2)

----------------------------------------------------------------------------
(* Burst signal model: burst_function.py *)

\* a slip: the matrix is laid out from the start time the window was derived
\* from at construction, not from the current t0
get_pulse_matrix_stale_t0(time_vals, t_0, n, pt, params, perf, dt, h) ==
    LET n_values == Arange(n)
        total_tshift == (t_start + PULSE_WIDTH \div 2) - TRACE_DELAY_IDX(pt)
        tfs == get_time_from_pulses(n_values)
        time_values == [i \in DOMAIN time_vals |-> [j \in DOMAIN n_values |->
                           time_vals[i] - total_tshift - tfs[j]]]
    IN  norm_pulse_shape(time_values, params, perf, params, dt, h)

\* BurstFunction.get_pulse_matrix(time_vals) of the object in state
\* (t_0, n, pt) with shape state (params, perf, dt, h)
get_pulse_matrix(time_vals, t_0, n, pt, params, perf, dt, h) ==
    LET n_values == Arange(n)
        total_tshift == t_0 - TRACE_DELAY_IDX(pt)
        tfs == get_time_from_pulses(n_values)
        time_values == [i \in DOMAIN time_vals |-> [j \in DOMAIN n_values |->
                           time_vals[i] - total_tshift - tfs[j]]]
    IN  norm_pulse_shape(time_values, params, perf, params, dt, h)

\* matrix . amplitudes, one row: sum_j row[j] * amplitudes[j].  Shape values
\* with different exponents are linearly independent over the rationals, so
\* the sum is kept exactly as the set of (value, total coefficient) terms
\* with a non-zero coefficient.
RECURSIVE coef_of(_, _, _, _)
coef_of(v, row, amplitudes, j) ==
    IF j \notin DOMAIN row THEN 0
    ELSE (IF row[j] = v THEN amplitudes[j + 1] ELSE 0)
         + coef_of(v, row, amplitudes, j + 1)

dot_row(row, amplitudes) ==
    LET vals == {row[j] : j \in DOMAIN row}
    IN  {[val |-> v, coef |-> coef_of(v, row, amplitudes, 0)] :
            v \in {w \in vals : coef_of(w, row, amplitudes, 0) # 0}}

dot(matrix, amplitudes) ==
    [i \in DOMAIN matrix |-> dot_row(matrix[i], amplitudes)]

\* Exact arithmetic on such sums.  A sum of shape values with integer
\* coefficients is 0 only when every collected coefficient is 0, so sums are
\* compared term by term.
Const(c) == IF c = 0 THEN {} ELSE {[val |-> ExpNeg(0, 1), coef |-> c]}

Mono(v) == {[val |-> v, coef |-> 1]}

CoefIn(a, v) ==
    IF \E t \in a : t.val = v THEN (CHOOSE t \in a : t.val = v).coef ELSE 0

CAdd(a, b) ==
    LET vals == {t.val : t \in a \cup b}
    IN  {[val |-> v, coef |-> CoefIn(a, v) + CoefIn(b, v)] :
            v \in {w \in vals : CoefIn(a, w) + CoefIn(b, w) # 0}}

CScale(c, a) == IF c = 0 THEN {} ELSE {[val |-> t.val, coef |-> c * t.coef] : t \in a}

LCM(a, b) == (a \div GCD(a, b)) * b

\* exp(-a) * exp(-b), over the least common denominator
ExpProd(a, b) ==
    LET l == LCM(a.den, b.den)
    IN  ExpNeg(a.num * (l \div a.den) + b.num * (l \div b.den), l)

RECURSIVE SumCoefProd(_)
SumCoefProd(pairs) ==
    IF pairs = {} THEN 0
    ELSE LET p == CHOOSE q \in pairs : TRUE
         IN  p[1].coef * p[2].coef + SumCoefProd(pairs \ {p})

CMul(a, b) ==
    LET pairs == a \X b
        vals == {ExpProd(p[1].val, p[2].val) : p \in pairs}
        coef(v) == SumCoefProd({p \in pairs : ExpProd(p[1].val, p[2].val) = v})
    IN  {[val |-> v, coef |-> coef(v)] : v \in {w \in vals : coef(w) # 0}}

\* a matrix of shape values as rows of sums, columns counted from 1
AsSums(matrix) ==
    [i \in DOMAIN matrix |->
        [c \in 1..Cardinality(DOMAIN matrix[i]) |-> Mono(matrix[i][c - 1])]]

\* determinant of a square matrix of sums, expanded along its first row
Minor(M, j) ==
    [i \in 1..(Len(M) - 1) |->
        [c \in 1..(Len(M) - 1) |-> M[i + 1][IF c < j THEN c ELSE c + 1]]]

RECURSIVE Det(_)
RECURSIVE DetFrom(_, _)
DetFrom(M, j) ==
    IF j > Len(M) THEN {}
    ELSE CAdd(CScale(IF j % 2 = 1 THEN 1 ELSE -1, CMul(M[1][j], Det(Minor(M, j)))),
              DetFrom(M, j + 1))

Det(M) == IF Len(M) = 0 THEN Const(1) ELSE DetFrom(M, 1)

\* the elements of a set of integers in increasing order
Sorted(S) ==
    CHOOSE s \in [1..Cardinality(S) -> S] :
        \A i, j \in 1..Cardinality(S) : i < j => s[i] < s[j]

\* np.linalg.matrix_rank: the size of the largest square submatrix with a
\* non-zero determinant
Rank(M, ncols) ==
    LET sizes == {k \in 0..Min(Len(M), ncols) :
                     \E R \in SUBSET (1..Len(M)), C \in SUBSET (1..ncols) :
                         /\ Cardinality(R) = k
                         /\ Cardinality(C) = k
                         /\ Det([i \in 1..k |-> [c \in 1..k |->
                                    M[Sorted(R)[i]][Sorted(C)[c]]]]) # {}}
    IN  CHOOSE k \in sizes : \A l \in sizes : l <= k

\* whether the vector b is a combination of the rows of M
InRowSpace(M, ncols, b) ==
    Rank(Append(M, [c \in 1..ncols |-> Const(b[c])]), ncols) = Rank(M, ncols)

\* a slip: only a too short amplitude vector is refused, a longer one is
\* cut to the pulse count
burst_function_too_short_only(time_values, amplitudes, t_0, n, pt, params, perf, dt, h) ==
    IF Len(amplitudes) < n
    THEN [status |-> "ValueError", value |-> None, built |-> FALSE]
    ELSE LET pulse_val_matrix ==
                 get_pulse_matrix(time_values, t_0, n, pt, params, perf, dt, h)
         IN  [status |-> pulse_val_matrix.status,
              value  |-> dot(pulse_val_matrix.value, amplitudes),
              built  |-> TRUE]

\* a slip: the amplitudes are applied to the pulses in reverse order
burst_function_reversed(time_values, amplitudes, t_0, n, pt, params, perf, dt, h) ==
    IF Len(amplitudes) # n
    THEN [status |-> "ValueError", value |-> None, built |-> FALSE]
    ELSE LET pulse_val_matrix ==
                 get_pulse_matrix(time_values, t_0, n, pt, params, perf, dt, h)
         IN  [status |-> pulse_val_matrix.status,
              value  |-> dot(pulse_val_matrix.value,
                             [j \in 1..n |-> amplitudes[n + 1 - j]]),
              built  |-> TRUE]

\* BurstFunction.burst_function(time_values, amplitudes)
burst_function(time_values, amplitudes, t_0, n, pt, params, perf, dt, h) ==
    IF Len(amplitudes) # n
    THEN [status |-> "ValueError", value |-> None, built |-> FALSE]
    ELSE LET pulse_val_matrix ==
                 get_pulse_matrix(time_values, t_0, n, pt, params, perf, dt, h)
         IN  IF pulse_val_matrix.status # "ok"
             THEN [status |-> pulse_val_matrix.status, value |-> None,
                   built |-> TRUE]
             ELSE [status |-> "ok",
                   value  |-> dot(pulse_val_matrix.value, amplitudes),
                   built  |-> TRUE]

\* a slip: the window ends at the last fitted pulse, index n - 1
init_t_end_last_pulse(t_0, n) ==
    (t_0 - PULSE_WIDTH \div 2) + time_from_pulse(n - 1)

\* a slip: the half width is added to t0, the window opens after the first
\* pulse centre
init_t_start_late(t_0) == t_0 + PULSE_WIDTH \div 2

\* the window derived by BurstFunction.__init__
init_t_start(t_0) == t_0 - PULSE_WIDTH \div 2

init_t_end(t_0, n) == init_t_start(t_0) + time_from_pulse(n)

----------------------------------------------------------------------------
(* Regression engine: fitter.py *)

\* Fitter.__init__(name, thresh=0.95): the default threshold, in 1e-4
DEFAULT_THRESH == 9500

\* the interval of set_rsquared_thresh, 0. <= thresh <= 1., in 1e-4
THRESH_MIN == 0
THRESH_MAX == 10000

\* a slip: the upper end of the interval is not tested
check_rsquared_thresh_no_upper(thresh) ==
    IF thresh.type # "float" THEN "ValueError"
    ELSE IF ~(THRESH_MIN <= thresh.val) THEN "ValueError" ELSE "ok"

\* Fitter.set_rsquared_thresh(thresh): the error it raises, or "ok"
check_rsquared_thresh(thresh) ==
    IF thresh.type # "float" THEN "ValueError"
    ELSE IF ~(THRESH_MIN <= thresh.val /\ thresh.val <= THRESH_MAX)
         THEN "ValueError"
         ELSE "ok"

\* R^2 values a fit can come out with, in 1e-4; none is a tie of the
\* three-decimal rounding
R2Vals == {0, 9496, 9500, 9504, 10000}

\* residual vectors a fit can come out with: none, or these
ResidChoices(nobs) ==
    {[i \in 1..nobs |-> 0],
     [i \in 1..nobs |-> IF i % 2 = 1 THEN 1 ELSE -1],
     [i \in 1..nobs |-> i]}

\* amplitudes of a pulse, in mV; fitted amplitudes outside the vectors over
\* these values are kept as OtherAmpls
AmplVals == {0, 1, 2}

AmplCandidates(cols) == [1..cols -> AmplVals]

OtherAmpls == << >>

\* a float nan in the place of R^2, and float comparison: nan < y is False
R2NaN == -1

float_lt(x, y) == x # R2NaN /\ x < y

\* sm.OLS(endog, exog).fit(): the least-squares solve is the library's
\* (params = pinv(exog) . endog).  Of its result the model keeps the inputs,
\* nobs, df_resid = nobs - rank(exog), the fitted amplitudes, the residuals
\* and R^2 = 1 - ssr / tss.
\*   Data that are an exact combination b of the columns are fitted with no
\* residual; the amplitudes are then the combination lying in the row space
\* of exog (b itself when the columns are independent), and R^2 is 1, or
\* nan = 1 - 0/0 when the total sum of squares is 0: for data all 0, and for
\* constant data when the library takes the centred sum.
\*   For other data the residuals and R^2 are any values a solve can give:
\* with no residual degree of freedom the fit is exact, and R^2 is 1 exactly
\* when every residual is 0.
OLS_fit(endog, exog) ==
    LET nobs == Len(endog)
        cols == Cardinality(DOMAIN exog[1])
        X    == AsSums(exog)
        df   == nobs - Rank(X, cols)
        zeros == [i \in 1..nobs |-> 0]
        sols == {b \in AmplCandidates(cols) : dot(exog, b) = endog}
        fit(b, r, q) ==
            [endog |-> endog, exog |-> exog, nobs |-> nobs, df_resid |-> df,
             params |-> b, resid |-> r, rsquared |-> q]
    IN  IF sols # {}
        THEN LET b == IF \E c \in sols : InRowSpace(X, cols, c)
                      THEN CHOOSE c \in sols : InRowSpace(X, cols, c)
                      ELSE OtherAmpls
                 r2s == IF \A i \in 1..nobs : endog[i] = {} THEN {R2NaN}
                        ELSE IF \A i \in 1..nobs : endog[i] = endog[1]
                             THEN {10000, R2NaN}
                             ELSE {10000}
             IN  {fit(b, zeros, q) : q \in r2s}
        ELSE {fit(OtherAmpls, x[1], x[2]) :
                 x \in {y \in ResidChoices(nobs) \X R2Vals :
                           /\ (y[2] = 10000) <=> (y[1] = zeros)
                           /\ df = 0 => y[2] = 10000}}

\* f"{x:.3f}" of an R^2 given in 1e-4: the text, as a number of thousandths
format_3f(r) == (r + 5) \div 10

\* the text of FitQualityError: f"{name} R^2={rsquared:.3f} < {thresh}. ..."
fit_quality_message(fit_name, rsquared, thresh) ==
    [name |-> fit_name, r2_text |-> format_3f(rsquared), thresh_text |-> thresh]

\* numpy broadcasting of two 1-D arrays of lengths n and m
broadcastable(n, m) == n = m \/ n = 1 \/ m = 1

broadcast_len(n, m) == IF n = 1 THEN m ELSE n

elem(a, i) == IF Len(a) = 1 THEN a[1] ELSE a[i]

RatAdd(a, b) == Rat(a.num * b.den + b.num * a.den, a.den * b.den)

\* np.sum(resid ** 2 / (errs ** 2)), an exact rational
RECURSIVE chi2_sum(_, _, _)
chi2_sum(resid, errs, i) ==
    IF i > broadcast_len(Len(resid), Len(errs)) THEN Rat(0, 1)
    ELSE RatAdd(Rat(elem(resid, i) * elem(resid, i),
                    elem(errs, i) * elem(errs, i)),
                chi2_sum(resid, errs, i + 1))

\* chi2_val / df_resid in float arithmetic: inf or nan when df_resid is 0
float_div(q, d) ==
    IF d # 0 THEN Rat(q.num, q.den * d)
    ELSE IF q.num = 0 THEN NaN ELSE Inf

\* a slip: chi2 is returned as it is, not divided by the degrees of freedom
get_chi2_stats_not_reduced(res, errs) ==
    IF res = None
    THEN [status |-> "AttributeError", value |-> None]
    ELSE IF ~broadcastable(Len(res[1].resid), Len(errs))
         THEN [status |-> "ValueError", value |-> None]
         ELSE LET chi2_val == chi2_sum(res[1].resid, errs, 1)
                  p_val == [chi2 |-> chi2_val, df |-> res[1].df_resid]
              IN  [status |-> "ok", value |-> <<chi2_val, p_val>>]

\* Fitter.get_chi2_stats(errs) on the stored fit res; the p-value
\* 1 - chi2.cdf(chi2_val, df) is scipy's, kept as its two arguments
get_chi2_stats(res, errs) ==
    IF res = None
    THEN [status |-> "AttributeError", value |-> None]
    ELSE IF ~broadcastable(Len(res[1].resid), Len(errs))
         THEN [status |-> "ValueError", value |-> None]
         ELSE LET chi2_val == chi2_sum(res[1].resid, errs, 1)
                  red_chi2_val == float_div(chi2_val, res[1].df_resid)
                  p_val == [chi2 |-> chi2_val, df |-> res[1].df_resid]
              IN  [status |-> "ok", value |-> <<red_chi2_val, p_val>>]

\* a float -inf (Inf is +inf, NaN is nan)
MinusInf == [num |-> 1, den |-> 0]

\* np.sum((data_values - function_values) ** 2)
RECURSIVE sum_sq_res(_, _, _)
sum_sq_res(data_values, function_values, i) ==
    IF i > Len(data_values) THEN 0
    ELSE (data_values[i] - function_values[i])
             * (data_values[i] - function_values[i])
         + sum_sq_res(data_values, function_values, i + 1)

RECURSIVE arr_sum(_, _)
arr_sum(a, i) == IF i > Len(a) THEN 0 ELSE a[i] + arr_sum(a, i + 1)

\* a slip: the total sum of squares taken about 0, not about the mean
RECURSIVE sum_sq_tot_uncentred(_, _)
sum_sq_tot_uncentred(data_values, i) ==
    IF i > Len(data_values) THEN Rat(0, 1)
    ELSE RatAdd(Rat(data_values[i] * data_values[i], 1),
                sum_sq_tot_uncentred(data_values, i + 1))

\* np.sum((data_values - np.mean(data_values)) ** 2), an exact rational:
\* each deviation is (n * value - sum) / n
RECURSIVE sum_sq_tot(_, _)
sum_sq_tot(data_values, i) ==
    IF i > Len(data_values) THEN Rat(0, 1)
    ELSE LET n == Len(data_values)
             dev == n * data_values[i] - arr_sum(data_values, 1)
         IN  RatAdd(Rat(dev * dev, n * n), sum_sq_tot(data_values, i + 1))

\* Fitter.get_r2(data_values, function_values): 1 - (res / tot) in float
\* arithmetic, nan for 0 / 0 and -inf for a positive res over 0
get_r2(data_values, function_values) ==
    LET res == sum_sq_res(data_values, function_values, 1)
        tot == sum_sq_tot(data_values, 1)
    IN  IF tot.num = 0
        THEN IF res = 0 THEN NaN ELSE MinusInf
        ELSE Rat(tot.num - res * tot.den, tot.num)

\* Fitter.get_adj_r2(data_values, function_values, pulse_num):
\* 1 - (1 - r2_val) * (n - 1) / (n - pulse_num + 1) in float arithmetic; a
\* division by 0 gives inf or nan, no error is raised
get_adj_r2(data_values, function_values, pulse_num) ==
    LET r2_val == get_r2(data_values, function_values)
        n == Len(data_values)
        d == n - pulse_num + 1
        x == Rat((r2_val.den - r2_val.num) * (n - 1), r2_val.den)
    IN  IF r2_val = NaN THEN NaN
        ELSE IF r2_val = MinusInf
             THEN IF n = 1 THEN NaN
                  ELSE IF d < 0 THEN Inf ELSE MinusInf
             ELSE IF d = 0
                  THEN IF x.num = 0 THEN NaN
                       ELSE IF x.num > 0 THEN MinusInf ELSE Inf
                  ELSE IF d > 0
                       THEN Rat(x.den * d - x.num, x.den * d)
                       ELSE Rat(x.num - x.den * d, -(x.den * d))

----------------------------------------------------------------------------
(* inputs *)

\* reference start times (floats)
T0Vals == {0, 1000}

\* values handed to set_t0: floats, and an int, which it rejects
SetT0Inputs ==
    {[type |-> "float", val |-> v] : v \in T0Vals} \cup {[type |-> "int", val |-> 0]}

\* pulse counts given to the constructor
NPulsesVals == 1..MaxPulses

\* values handed to set_n_pulses: ints (the code accepts every int, also 0
\* and negative ones), and a float, which it rejects
SetNInputs ==
    {[type |-> "int", val |-> n] : n \in (-1)..MaxPulses}
        \cup {[type |-> "float", val |-> 2]}

\* shape parameter vectors <<sigma, lambda>> inside param_bounds
\* ([1e-11 s, 1e-9 s] for sigma, [0, 1e9 1/s] for lambda):
\* (5e-10 s, 5e8 1/s) and (1e-9 s, 1e9 1/s)
ParamChoices == {<<400, 1>>, <<800, 2>>}

\* the parameter file of each trace type (PULSE_PARAM_IDX): its content is
\* not part of the repository, any vector of two numbers loads
FileParams(pt) == IF pt = "REFLECTED" THEN <<800, 2>> ELSE <<400, 1>>

\* vectors handed to set_pulse_params, also of a wrong length
SetParamInputs == ParamChoices \cup {<<400>>, <<400, 1, 1>>}

\* sample-time arrays: before the burst, at a pulse centre, at the
\* transition point of the first pulse (delta_t = 100 for <<400, 1>>), later
TimeArrays == {<<-1888, 100>>, <<3987, 16108>>}

\* amplitude vectors of every length up to one more than the largest count
AmplVectors == {[j \in 1..len |-> j] : len \in 0..(MaxPulses + 1)}

\* index arrays handed to get_time_from_pulses
IdxArrays ==
    UNION {[1..len -> (-1)..MaxPulseIdx] : len \in 1..MaxArrLen}

----------------------------------------------------------------------------
(* BurstFunction: construction and calls *)

Outcome(op, arg, status, value, built) ==
    [op |-> op, arg |-> arg, status |-> status, value |-> value, built |-> built]

\* BurstFunction.__init__(t_0, n, pt): the fields of the new object;
\* file_params is the content of the parameter file of the trace type, read
\* by GaussianExp.__init__
BurstFunction_init(t_0, n, pt, file_params) ==
    [t0 |-> t_0,
     n_pulses |-> n,
     ptype |-> pt,
     parameters |-> file_params,
     param_num |-> Len(file_params),
     make_performant |-> FALSE,
     delta_t |-> shape_delta_t(file_params[1], file_params[2]),
     h2 |-> shape_h2(shape_delta_t(file_params[1], file_params[2]),
                     file_params[1]),
     t_start |-> init_t_start(t_0),
     t_end |-> init_t_end(t_0, n)]

InitFitterIdle ==
    /\ results = None
    /\ name = "trace"
    /\ fit_qual_thresh = 9500

\* no DataTrace is held
InitNoTrace == data_trc = None

\* the class NoT0Val as defined: num_instances = 0, and no instance made
InitNoT0Val == NoT0Val = [num_instances |-> 0, instances |-> << >>]

InitBurstFields(t_0, n, pt) ==
    LET new == BurstFunction_init(t_0, n, pt, FileParams(pt))
    IN  /\ t0 = new.t0
        /\ n_pulses = new.n_pulses
        /\ ptype = new.ptype
        /\ parameters = new.parameters
        /\ param_num = new.param_num
        /\ make_performant = new.make_performant
        /\ delta_t = new.delta_t
        /\ h2 = new.h2
        /\ t_start = new.t_start
        /\ t_end = new.t_end

InitBurst(t_0, n, pt) ==
    /\ InitBurstFields(t_0, n, pt)
    /\ ret = Outcome("__init__", <<t_0, n, pt>>, "ok", None, FALSE)

\* the burst model: a one-pulse BurstFunction of any trace type, then any
\* sequence of calls
Init ==
    /\ \E t_0 \in T0Vals, pt \in TraceType : InitBurst(t_0, 1, pt)
    /\ InitFitterIdle
    /\ InitNoT0Val
    /\ InitNoTrace

set_t0(value) ==
    /\ IF value.type # "float"
       THEN /\ ret' = Outcome("set_t0", value, "ValueError", None, FALSE)
            /\ UNCHANGED t0
       ELSE /\ t0' = value.val
            /\ ret' = Outcome("set_t0", value, "ok", None, FALSE)
    /\ UNCHANGED <<n_pulses, ptype, t_start, t_end, shapeVars, fitVars,
                   data_trc, NoT0Val>>

set_n_pulses(value) ==
    /\ IF value.type # "int"
       THEN /\ ret' = Outcome("set_n_pulses", value, "ValueError", None, FALSE)
            /\ UNCHANGED n_pulses
       ELSE /\ n_pulses' = value.val
            /\ ret' = Outcome("set_n_pulses", value, "ok", None, FALSE)
    /\ UNCHANGED <<t0, ptype, t_start, t_end, shapeVars, fitVars, data_trc,
                   NoT0Val>>

\* a slip: a vector longer than the declared count is accepted
set_pulse_params_at_least(params) ==
    /\ IF Len(params) < param_num
       THEN /\ ret' = Outcome("set_pulse_params", params, "ValueError", None, FALSE)
            /\ UNCHANGED parameters
       ELSE /\ parameters' = params
            /\ ret' = Outcome("set_pulse_params", params, "ok", None, FALSE)
    /\ UNCHANGED <<bfVars, param_num, delta_t, h2, make_performant, fitVars,
                   data_trc, NoT0Val>>

set_pulse_params(params) ==
    /\ IF Len(params) # param_num
       THEN /\ ret' = Outcome("set_pulse_params", params, "ValueError", None, FALSE)
            /\ UNCHANGED parameters
       ELSE /\ parameters' = params
            /\ ret' = Outcome("set_pulse_params", params, "ok", None, FALSE)
    /\ UNCHANGED <<bfVars, param_num, delta_t, h2, make_performant, fitVars,
                   data_trc, NoT0Val>>

call_get_time_from_pulses(n_vals) ==
    /\ ret' = Outcome("get_time_from_pulses", n_vals, "ok",
                      get_time_from_pulses(n_vals), FALSE)
    /\ UNCHANGED <<bfVars, shapeVars, fitVars, data_trc, NoT0Val>>

call_get_pulse_matrix(time_vals) ==
    /\ LET r == get_pulse_matrix(time_vals, t0, n_pulses, ptype, parameters,
                                 make_performant, delta_t, h2)
       IN  ret' = Outcome("get_pulse_matrix", time_vals, r.status, r.value, TRUE)
    /\ UNCHANGED <<bfVars, shapeVars, fitVars, data_trc, NoT0Val>>

call_burst_function(time_values, amplitudes) ==
    /\ LET r == burst_function(time_values, amplitudes, t0, n_pulses, ptype,
                               parameters, make_performant, delta_t, h2)
       IN  ret' = Outcome("burst_function", <<time_values, amplitudes>>,
                          r.status, r.value, r.built)
    /\ UNCHANGED <<bfVars, shapeVars, fitVars, data_trc, NoT0Val>>

Next ==
    \/ \E value \in SetT0Inputs : set_t0(value)
    \/ \E value \in SetNInputs : set_n_pulses(value)
    \/ \E params \in SetParamInputs : set_pulse_params(params)
    \/ \E time_vals \in TimeArrays : call_get_pulse_matrix(time_vals)
    \/ \E time_values \in TimeArrays, amplitudes \in AmplVectors :
           call_burst_function(time_values, amplitudes)

Spec == Init /\ [][Next]_vars

----------------------------------------------------------------------------
(* Fitter: construction and calls *)

MaxFitPulses == 2   \* largest pulse count of the fitted model
MaxSamples == 3     \* longest array of uncertainties

\* the traces fitted: sample times and measured values (mV)
Traces ==
    {[time_values |-> <<-1888, 100>>,
      data_values |-> <<Const(1), Const(2)>>],
     [time_values |-> <<0, 3987, 16108>>,
      data_values |-> <<Const(3), Const(1), Const(1)>>]}

\* thresholds handed to Fitter(...) and set_rsquared_thresh: floats inside
\* and outside [0, 1], and the int 1
ThreshInputs ==
    {[type |-> "float", val |-> v] : v \in {0, 9500, 10000, 10001, -1}}
        \cup {[type |-> "int", val |-> 10000]}

\* measurement uncertainties (mV), one per sample or one for all
ErrArrays == {[i \in 1..len |-> e] : len \in 1..MaxSamples, e \in {1, 2}}

FitterNames == {"C1trc00000"}

\* the threshold argument of Fitter(...): passed or left to its default
FitterArgs ==
    {[passed |-> FALSE, type |-> "float", val |-> 0]}
        \cup {[passed |-> TRUE, type |-> "float", val |-> v] :
                 v \in {0, 9500, 10000}}

\* Fitter.__init__(name, thresh=0.95); a refused threshold raises and there
\* is no Fitter
InitFitter(fit_name, given) ==
    LET thresh == IF given.passed
                  THEN [type |-> given.type, val |-> given.val]
                  ELSE [type |-> "float", val |-> DEFAULT_THRESH]
    IN  /\ check_rsquared_thresh(thresh) = "ok"
        /\ results = None
        /\ name = fit_name
        /\ fit_qual_thresh = thresh.val
        /\ ret = Outcome("Fitter.__init__", given, "ok", None, FALSE)

set_rsquared_thresh(thresh) ==
    /\ IF check_rsquared_thresh(thresh) # "ok"
       THEN /\ ret' = Outcome("set_rsquared_thresh", thresh,
                              check_rsquared_thresh(thresh), None, FALSE)
            /\ UNCHANGED fit_qual_thresh
       ELSE /\ fit_qual_thresh' = thresh.val
            /\ ret' = Outcome("set_rsquared_thresh", thresh, "ok", None, FALSE)
    /\ UNCHANGED <<bfVars, shapeVars, results, name, data_trc, NoT0Val>>

\* Fitter(fit_name, thresh) called by the program: the fields of the new
\* Fitter, or the ValueError of set_rsquared_thresh raised again
Fitter_init(fit_name, given) ==
    LET thresh == IF given.passed
                  THEN [type |-> given.type, val |-> given.val]
                  ELSE [type |-> "float", val |-> DEFAULT_THRESH]
    IN  [status |-> check_rsquared_thresh(thresh),
         results |-> None,
         name |-> fit_name,
         fit_qual_thresh |-> thresh.val]

\* fitter = Fitter(fit_name, thresh): the new Fitter takes the place of the
\* one held; when the constructor raises, no Fitter is made and the one
\* held stays
new_Fitter(fit_name, given) ==
    LET new == Fitter_init(fit_name, given)
    IN  /\ IF new.status # "ok"
           THEN UNCHANGED fitVars
           ELSE /\ results' = new.results
                /\ name' = new.name
                /\ fit_qual_thresh' = new.fit_qual_thresh
        /\ ret' = Outcome("Fitter.__init__", given, new.status, None, FALSE)
        /\ UNCHANGED <<bfVars, shapeVars, data_trc, NoT0Val>>

\* a slip: a fit exactly at the threshold is refused too
linear_regress_burst_at_most(dtrace) ==
    LET regressors == get_pulse_matrix(dtrace.time_values, t0, n_pulses, ptype,
                                       parameters, make_performant, delta_t, h2)
    IN  /\ regressors.status = "ok"
        /\ \E fit \in OLS_fit(dtrace.data_values, regressors.value) :
               /\ results' = <<fit>>
               /\ IF fit.rsquared # R2NaN /\ fit.rsquared <= fit_qual_thresh
                  THEN ret' = Outcome("linear_regress_burst", dtrace,
                                      "FitQualityError",
                                      fit_quality_message(name, fit.rsquared,
                                                          fit_qual_thresh),
                                      TRUE)
                  ELSE ret' = Outcome("linear_regress_burst", dtrace, "ok",
                                      <<fit>>, TRUE)
        /\ UNCHANGED <<bfVars, shapeVars, name, fit_qual_thresh, data_trc,
                       NoT0Val>>

\* a slip: the fit is stored only once it has passed the threshold
linear_regress_burst_store_late(dtrace) ==
    LET regressors == get_pulse_matrix(dtrace.time_values, t0, n_pulses, ptype,
                                       parameters, make_performant, delta_t, h2)
    IN  /\ regressors.status = "ok"
        /\ \E fit \in OLS_fit(dtrace.data_values, regressors.value) :
               IF float_lt(fit.rsquared, fit_qual_thresh)
               THEN /\ ret' = Outcome("linear_regress_burst", dtrace,
                                      "FitQualityError",
                                      fit_quality_message(name, fit.rsquared,
                                                          fit_qual_thresh),
                                      TRUE)
                    /\ UNCHANGED results
               ELSE /\ results' = <<fit>>
                    /\ ret' = Outcome("linear_regress_burst", dtrace, "ok",
                                      <<fit>>, TRUE)
        /\ UNCHANGED <<bfVars, shapeVars, name, fit_qual_thresh, data_trc,
                       NoT0Val>>

\* Fitter.linear_regress_burst(dtrace, bfunc), bfunc the BurstFunction of
\* the state
linear_regress_burst(dtrace) ==
    LET regressors == get_pulse_matrix(dtrace.time_values, t0, n_pulses, ptype,
                                       parameters, make_performant, delta_t, h2)
    IN  IF regressors.status # "ok"
        THEN /\ ret' = Outcome("linear_regress_burst", dtrace,
                               regressors.status, None, TRUE)
             /\ UNCHANGED <<bfVars, shapeVars, fitVars, data_trc, NoT0Val>>
        ELSE /\ \E fit \in OLS_fit(dtrace.data_values, regressors.value) :
                    /\ results' = <<fit>>
                    /\ IF float_lt(fit.rsquared, fit_qual_thresh)
                       THEN ret' = Outcome("linear_regress_burst", dtrace,
                                           "FitQualityError",
                                           fit_quality_message(name,
                                               fit.rsquared, fit_qual_thresh),
                                           TRUE)
                       ELSE ret' = Outcome("linear_regress_burst", dtrace,
                                           "ok", <<fit>>, TRUE)
             /\ UNCHANGED <<bfVars, shapeVars, name, fit_qual_thresh,
                            data_trc, NoT0Val>>

call_get_chi2_stats(errs) ==
    /\ LET r == get_chi2_stats(results, errs)
       IN  ret' = Outcome("get_chi2_stats", errs, r.status, r.value, FALSE)
    /\ UNCHANGED <<bfVars, shapeVars, fitVars, data_trc, NoT0Val>>

\* the regression engine: a BurstFunction and a Fitter, then fits,
\* statistics and threshold changes in any order
InitFit ==
    /\ \E n \in 1..MaxFitPulses, fit_name \in FitterNames,
          given \in FitterArgs :
           /\ InitBurstFields(0, n, "PUMP")
           /\ InitFitter(fit_name, given)
    /\ InitNoTrace
    /\ InitNoT0Val

NextFit ==
    \/ \E thresh \in ThreshInputs : set_rsquared_thresh(thresh)
    \/ \E dtrace \in Traces : linear_regress_burst(dtrace)
    \/ \E errs \in ErrArrays : call_get_chi2_stats(errs)

SpecFit == InitFit /\ [][NextFit]_vars

\* the goodness-of-fit statistics alone: observed and modelled values of one
\* length and a pulse count, then one of the two calls on them
MaxStatLen == 3     \* longest array handed to get_r2 and get_adj_r2

StatVals == {0, 1, 2}

StatArrays(len) == [1..len -> StatVals]

call_get_r2(data_values, function_values) ==
    /\ ret' = Outcome("get_r2", <<data_values, function_values>>, "ok",
                      get_r2(data_values, function_values), FALSE)
    /\ UNCHANGED <<bfVars, shapeVars, fitVars, data_trc, NoT0Val>>

call_get_adj_r2(data_values, function_values, pulse_num) ==
    /\ ret' = Outcome("get_adj_r2",
                      <<data_values, function_values, pulse_num>>, "ok",
                      get_adj_r2(data_values, function_values, pulse_num),
                      FALSE)
    /\ UNCHANGED <<bfVars, shapeVars, fitVars, data_trc, NoT0Val>>

InitStats ==
    /\ InitBurstFields(0, 1, "PUMP")
    /\ InitFitterIdle
    /\ InitNoT0Val
    /\ InitNoTrace
    /\ \E len \in 0..MaxStatLen :
           \E observed \in StatArrays(len), modeled \in StatArrays(len),
              pulse_num \in 0..(MaxStatLen + 1) :
               ret = Outcome("inputs", <<observed, modeled, pulse_num>>, "ok",
                             None, FALSE)

NextStats ==
    \/ /\ ret.op = "inputs"
       /\ call_get_r2(ret.arg[1], ret.arg[2])
    \/ /\ ret.op = "inputs"
       /\ call_get_adj_r2(ret.arg[1], ret.arg[2], ret.arg[3])

SpecStats == InitStats /\ [][NextStats]_vars

\* the threshold alone: Fitters made with any threshold argument, and
\* set_rsquared_thresh with any value
ThreshNames == {"C1trc00000", "C2trc00000"}

ThreshCalls ==
    ThreshInputs \cup {[type |-> "float", val |-> 5000],
                       [type |-> "int", val |-> 0]}

ThreshCtorArgs ==
    FitterArgs \cup {[passed |-> TRUE, type |-> th.type, val |-> th.val] :
                        th \in ThreshCalls}

NextThresh ==
    \/ \E fit_name \in ThreshNames, given \in ThreshCtorArgs :
           new_Fitter(fit_name, given)
    \/ \E thresh \in ThreshCalls : set_rsquared_thresh(thresh)

SpecThresh == InitFit /\ [][NextThresh]_vars

\* the round trip of tests/test_linregress.py: a noiseless trace made by
\* burst_function from known amplitudes, then fitted with the same model
TripTimes == {<<100>>, <<0, 3987, 7773, 16108>>}

TripAmpls == UNION {AmplCandidates(n) : n \in 1..MaxFitPulses}

\* DataTrace(sampling_times, mock_data)
mock_trc(sampling_times, mock_data) ==
    [time_values |-> sampling_times, data_values |-> mock_data]

\* fitter.linear_regress_burst(mb.mock_trc, bfunc) on the trace just made
fit_mock_trc ==
    /\ ret.op = "burst_function"
    /\ ret.status = "ok"
    /\ linear_regress_burst(mock_trc(ret.arg[1], ret.value))

InitTrip ==
    /\ \E n \in 1..MaxFitPulses : InitBurstFields(0, n, "PUMP")
    /\ InitFitter("C1trc00000", [passed |-> FALSE, type |-> "float", val |-> 0])
    /\ InitNoTrace
    /\ InitNoT0Val

\* every round trip takes a new Fitter: the trace is made before it has fitted
NextTrip ==
    \/ \E params \in ParamChoices : set_pulse_params(params)
    \/ \E sampling_times \in TripTimes, mock_ampls \in TripAmpls :
           /\ results = None
           /\ call_burst_function(sampling_times, mock_ampls)
    \/ fit_mock_trc

SpecTrip == InitTrip /\ [][NextTrip]_vars

\* the window: every construction, then the mutators of t0 and the pulse count
InitWindow ==
    /\ \E t_0 \in T0Vals, n \in NPulsesVals, pt \in TraceType :
           InitBurst(t_0, n, pt)
    /\ InitFitterIdle
    /\ InitNoT0Val
    /\ InitNoTrace

NextWindow ==
    \/ \E value \in SetT0Inputs : set_t0(value)
    \/ \E value \in SetNInputs : set_n_pulses(value)

SpecWindow == InitWindow /\ [][NextWindow]_vars

\* the timing function alone, on every index array
InitTiming ==
    /\ InitBurst(0, 1, "PUMP")
    /\ InitFitterIdle
    /\ InitNoT0Val
    /\ InitNoTrace

NextTiming == \E n_vals \in IdxArrays : call_get_time_from_pulses(n_vals)

SpecTiming == InitTiming /\ [][NextTiming]_vars

----------------------------------------------------------------------------
(* GaussianExp alone: construction and calls *)

\* param_bounds = ([1e-11, 0], [1e-9, 1e9]): sigma in units of 1.25 ps,
\* lambda in units of 5e8 1/s
SIGMA_MIN == 8
SIGMA_MAX == 800
LAMBDA_MIN == 0
LAMBDA_MAX == 2

\* parameter vectors <<sigma, lambda>>: inside param_bounds, also on the
\* boundary lambda = 0, and one far outside (1e-11 s, 1e12 1/s), which no
\* method refuses
ShapeParams == {<<400, 0>>, <<400, 1>>, <<800, 2>>, <<8, 2000>>}

\* vectors handed to set_params / set_pulse_params, also of a wrong length
ShapeSetInputs == ShapeParams \cup {<<400>>, <<400, 1, 1>>}

\* arrays of times relative to the pulse centre: the centre, the transition
\* points of ShapeParams (0, 100, 800, 80), times before and after
ShapeTimes == {<<0>>, <<100, 800>>, <<80, 900>>, <<0, -1000>>, <<-1000, 0>>}

\* PulseShape.set_params(new_params)
set_params(new_params) ==
    /\ IF Len(new_params) # param_num
       THEN /\ ret' = Outcome("set_params", new_params, "ValueError", None, FALSE)
            /\ UNCHANGED parameters
       ELSE /\ parameters' = new_params
            /\ ret' = Outcome("set_params", new_params, "ok", None, FALSE)
    /\ UNCHANGED <<bfVars, param_num, delta_t, h2, make_performant, fitVars,
                   data_trc, NoT0Val>>

\* the caller's switch to the fast mode and back: make_performant = value
set_make_performant(value) ==
    /\ make_performant' = value
    /\ ret' = Outcome("make_performant", value, "ok", None, FALSE)
    /\ UNCHANGED <<bfVars, parameters, param_num, delta_t, h2, fitVars,
                   data_trc, NoT0Val>>

\* GaussianExp.pulse_shape(t, *params) on a 1-D array t
call_pulse_shape(t, params) ==
    /\ LET r == pulse_shape(<<t>>, params, make_performant, parameters,
                            delta_t, h2)
       IN  ret' = Outcome("pulse_shape", <<t, params>>, r.status,
                          IF r.status = "ok" THEN r.value[1] ELSE None, FALSE)
    /\ UNCHANGED <<bfVars, shapeVars, fitVars, data_trc, NoT0Val>>

\* GaussianExp.norm_pulse_shape(t, *params) on a 1-D array t
call_norm_pulse_shape(t, params) ==
    /\ LET r == norm_pulse_shape(<<t>>, params, make_performant, parameters,
                                 delta_t, h2)
       IN  ret' = Outcome("norm_pulse_shape", <<t, params>>, r.status,
                          IF r.status = "ok" THEN r.value[1] ELSE None, FALSE)
    /\ UNCHANGED <<bfVars, shapeVars, fitVars, data_trc, NoT0Val>>

\* a BurstFunction whose parameter file holds any of the vectors
InitShape ==
    /\ \E file_params \in ShapeParams :
           LET new == BurstFunction_init(0, 1, "PUMP", file_params)
           IN  /\ t0 = new.t0
               /\ n_pulses = new.n_pulses
               /\ ptype = new.ptype
               /\ parameters = new.parameters
               /\ param_num = new.param_num
               /\ make_performant = new.make_performant
               /\ delta_t = new.delta_t
               /\ h2 = new.h2
               /\ t_start = new.t_start
               /\ t_end = new.t_end
               /\ ret = Outcome("GaussianExp.__init__", file_params, "ok",
                                None, FALSE)
    /\ InitFitterIdle
    /\ InitNoT0Val
    /\ InitNoTrace

NextShape ==
    \/ \E new_params \in ShapeSetInputs : set_params(new_params)
    \/ \E params \in ShapeSetInputs : set_pulse_params(params)
    \/ \E value \in BOOLEAN : set_make_performant(value)
    \/ \E t \in ShapeTimes, params \in ShapeParams : call_pulse_shape(t, params)
    \/ \E t \in ShapeTimes, params \in ShapeParams :
           call_norm_pulse_shape(t, params)

SpecShape == InitShape /\ [][NextShape]_vars

----------------------------------------------------------------------------
(* DataTrace: data_trace.py *)

\* a numpy array: its number of dimensions and its elements in order
Arr(vals) == [ndim |-> 1, vals |-> vals]

size(arr) == Len(arr.vals)

\* DataTrace._set_arr(attrname, arr) on the trace trc
set_arr(trc, attrname, arr) ==
    IF arr.ndim # 1
    THEN [status |-> "ValueError", obj |-> trc]
    ELSE [status |-> "ok", obj |-> [trc EXCEPT ![attrname] = arr]]

\* DataTrace.__init__(time_values, data_values, time_units, data_units):
\* the new trace, or the error and no trace
DataTrace_init(time_vals, data_vals, time_units, data_units) ==
    LET new == [trace_len |-> size(time_vals),
                data_values |-> None,
                time_values |-> None,
                time_units |-> time_units,
                data_units |-> data_units,
                current_idx |-> 0]
        with_time == set_arr(new, "time_values", time_vals)
        with_data == set_arr(with_time.obj, "data_values", data_vals)
    IN  IF size(time_vals) # size(data_vals) \/ with_time.status # "ok"
           \/ with_data.status # "ok"
        THEN [status |-> "ValueError", obj |-> None]
        ELSE [status |-> "ok", obj |-> with_data.obj]

\* arr[idx] for a boolean array idx of the length of arr
RECURSIVE mask_select(_, _, _)
mask_select(vals, idx, i) ==
    IF i > Len(vals) THEN << >>
    ELSE (IF idx[i] THEN <<vals[i]>> ELSE << >>) \o mask_select(vals, idx, i + 1)

\* DataTrace.make_restricted(t_start, t_end) on the trace trc.  np.vectorize
\* without otypes refuses an input of size 0 (ValueError); a boolean index
\* of another length than the indexed array raises IndexError.
make_restricted(trc, tstart, tend) ==
    LET times == trc.time_values.vals
        idx == [i \in 1..Len(times) |-> tstart <= times[i] /\ times[i] <= tend]
    IN  IF Len(times) = 0
        THEN [status |-> "ValueError", obj |-> None]
        ELSE IF size(trc.data_values) # Len(times)
             THEN [status |-> "IndexError", obj |-> None]
             ELSE DataTrace_init(Arr(mask_select(times, idx, 1)),
                                 Arr(mask_select(trc.data_values.vals, idx, 1)),
                                 trc.time_units, trc.data_units)

\* time arrays (ns) and data arrays (mV) of the traces constructed
TraceTimes == {<< >>, <<2>>, <<1, 2, 3>>, <<3, 1, 2>>}

TraceData == {<< >>, <<7>>, <<7, 8, 9>>}

TraceUnits == {<<"s", "V">>, <<"ns", "mV">>}

\* arrays handed to the setters: 1-D of several lengths, and 2-D
SetTimeInputs ==
    {Arr(<<2>>), Arr(<<3, 1, 2>>), [ndim |-> 2, vals |-> <<1, 2, 3>>]}

SetDataInputs ==
    {Arr(<<7>>), Arr(<<9, 8, 7>>), [ndim |-> 2, vals |-> <<7, 8, 9>>]}

\* closed intervals [t_start, t_end] handed to make_restricted
RestrictWindows == {<<1, 2>>, <<2, 3>>, <<0, 9>>, <<5, 6>>, <<3, 1>>}

set_time_values(values) ==
    /\ LET r == set_arr(data_trc, "time_values", values)
       IN  /\ data_trc' = r.obj
           /\ ret' = Outcome("set_time_values", values, r.status, None, FALSE)
    /\ UNCHANGED <<bfVars, shapeVars, fitVars, NoT0Val>>

set_data_values(values) ==
    /\ LET r == set_arr(data_trc, "data_values", values)
       IN  /\ data_trc' = r.obj
           /\ ret' = Outcome("set_data_values", values, r.status, None, FALSE)
    /\ UNCHANGED <<bfVars, shapeVars, fitVars, NoT0Val>>

call_make_restricted(tstart, tend) ==
    /\ LET r == make_restricted(data_trc, tstart, tend)
       IN  ret' = Outcome("make_restricted", <<tstart, tend>>, r.status,
                          r.obj, FALSE)
    /\ UNCHANGED <<bfVars, shapeVars, fitVars, data_trc, NoT0Val>>

\* the caller goes on with the restricted trace (res_data_trc of fit_trace)
use_restricted ==
    /\ ret.op = "make_restricted"
    /\ ret.status = "ok"
    /\ data_trc' = ret.value
    /\ ret' = Outcome("res_data_trc", None, "ok", None, FALSE)
    /\ UNCHANGED <<bfVars, shapeVars, fitVars, NoT0Val>>

\* DataTrace.__iter__(): the trace itself, as it is
iter_trace ==
    /\ ret' = Outcome("__iter__", None, "ok", None, FALSE)
    /\ UNCHANGED <<bfVars, shapeVars, fitVars, data_trc, NoT0Val>>

\* DataTrace.__next__()
next_item ==
    /\ IF data_trc.current_idx = data_trc.trace_len
       THEN /\ ret' = Outcome("__next__", None, "StopIteration", None, FALSE)
            /\ UNCHANGED data_trc
       ELSE IF data_trc.current_idx >= size(data_trc.time_values)
               \/ data_trc.current_idx >= size(data_trc.data_values)
            THEN /\ ret' = Outcome("__next__", None, "IndexError", None, FALSE)
                 /\ UNCHANGED data_trc
            ELSE /\ ret' = Outcome("__next__", None, "ok",
                        <<data_trc.time_values.vals[data_trc.current_idx + 1],
                          data_trc.data_values.vals[data_trc.current_idx + 1]>>,
                        FALSE)
                 /\ data_trc' = [data_trc EXCEPT !.current_idx = @ + 1]
    /\ UNCHANGED <<bfVars, shapeVars, fitVars, NoT0Val>>

\* every DataTrace the constructor accepts, then its methods in any order
InitTrace ==
    /\ \E time_vals \in TraceTimes, data_vals \in TraceData,
          units \in TraceUnits :
           LET new == DataTrace_init(Arr(time_vals), Arr(data_vals),
                                     units[1], units[2])
           IN  /\ new.status = "ok"
               /\ data_trc = new.obj
               /\ ret = Outcome("DataTrace.__init__", <<time_vals, data_vals>>,
                                "ok", None, FALSE)
    /\ InitBurstFields(0, 1, "PUMP")
    /\ InitFitterIdle
    /\ InitNoT0Val

NextTrace ==
    \/ \E values \in SetTimeInputs : set_time_values(values)
    \/ \E values \in SetDataInputs : set_data_values(values)
    \/ \E w \in RestrictWindows : call_make_restricted(w[1], w[2])
    \/ use_restricted
    \/ iter_trace
    \/ next_item

SpecTrace == InitTrace /\ [][NextTrace]_vars

----------------------------------------------------------------------------
(* main_funcs.py, main.py: fit_trace *)

\* the uncertainty of a scope voltage, uval = 0.001167 V: the voltages of
\* the trace files are in units of it
UVAL == 1

\* trace files: the path (directory left out) as stem and extension, and
\* the two columns below the five header lines
TraceFiles ==
    {[stem |-> "C1trc00000", ext |-> ".csv",
      time_values |-> <<-1888, 100, 2000>>,
      data_values |-> <<Const(1), Const(2), Const(1)>>],
     [stem |-> "C2trc00000", ext |-> ".csv",
      time_values |-> <<0, 100, 3987>>,
      data_values |-> <<Const(3), Const(1), Const(1)>>],
     [stem |-> "C3trc00000", ext |-> ".csv",
      time_values |-> <<100>>,
      data_values |-> <<Const(2)>>],
     [stem |-> "C4trc00000", ext |-> ".txt",
      time_values |-> <<-1888, 100, 2000>>,
      data_values |-> <<Const(1), Const(2), Const(1)>>]}

\* a column of np.loadtxt(..., unpack=True): a file of one row gives
\* 0-dimensional columns
loadtxt_column(vals) == [ndim |-> IF Len(vals) = 1 THEN 0 ELSE 1, vals |-> vals]

\* LeCroyLoader.load_trace(fpath); a file with no row does not unpack into
\* two columns
load_trace(file) ==
    IF file.ext # ".csv" \/ Len(file.time_values) = 0
    THEN [status |-> "ValueError", obj |-> None]
    ELSE DataTrace_init(loadtxt_column(file.time_values),
                        loadtxt_column(file.data_values), "s", "V")

\* fit_trace up to the regression: the trace loaded, the BurstFunction, the
\* restricted trace and the regressors of linear_regress_burst, or the
\* error raised on the way
fit_trace_setup(file, t0_value, n, pt) ==
    LET loaded == load_trace(file)
        bfunc == BurstFunction_init(t0_value, n, pt, FileParams(pt))
        restricted == make_restricted(loaded.obj, bfunc.t_start, bfunc.t_end)
        regressors ==
            get_pulse_matrix(restricted.obj.time_values.vals, bfunc.t0,
                             bfunc.n_pulses, bfunc.ptype, bfunc.parameters,
                             bfunc.make_performant, bfunc.delta_t, bfunc.h2)
        failed(status) ==
            [status |-> status, data_trc |-> None, bfunc |-> None,
             res_data_trc |-> None, regressors |-> None]
    IN  IF loaded.status # "ok" THEN failed(loaded.status)
        ELSE IF restricted.status # "ok" THEN failed(restricted.status)
        ELSE IF regressors.status # "ok" THEN failed(regressors.status)
        ELSE [status |-> "ok", data_trc |-> loaded.obj, bfunc |-> bfunc,
              res_data_trc |-> restricted.obj,
              regressors |-> regressors.value]

\* fit_trace up to the fit of linear_regress_burst: the objects made (or
\* the error raised) and, when the regression is reached, a result <<fit>>
\* that sm.OLS(...).fit() can give
fit_trace_runs(file, t0_value, n, pt) ==
    UNION {IF setup.status # "ok"
           THEN {[setup |-> setup, fit |-> None]}
           ELSE {[setup |-> setup, fit |-> <<fit>>] :
                    fit \in OLS_fit(setup.res_data_trc.data_values.vals,
                                    setup.regressors)} :
              setup \in {fit_trace_setup(file, t0_value, n, pt)}}

\* fit_trace(filepath, t0_value, n_pulses, ptype, show_fig, verbose_output)
\* from the fit on, run being what it did up to there: how the call ends,
\* and what it did.  When linear_regress_burst raises FitQualityError the
\* local name fit is never bound, and its first use raises
\* UnboundLocalError.
fit_trace(file, show_fig, verbose_output, run) ==
    LET setup == run.setup
        fit == run.fit
        fitter == Fitter_init(file.stem,
                              [passed |-> FALSE, type |-> "float", val |-> 0])
        rejected == float_lt(fit[1].rsquared, fitter.fit_qual_thresh)
        fit_error ==
            IF rejected
            THEN <<fit_quality_message(fitter.name, fit[1].rsquared,
                                       fitter.fit_qual_thresh)>>
            ELSE None
        show == IF rejected THEN TRUE ELSE show_fig
        bound == ~rejected
        errs == [i \in 1..setup.res_data_trc.trace_len |-> UVAL]
        stats == get_chi2_stats(fit, errs)
        ended(status, shown, value) ==
            [status |-> status, fit_error |-> fit_error,
             chi2 |-> stats.value, shown |-> shown, value |-> value]
    IN  IF setup.status # "ok"
        THEN [status |-> setup.status, fit_error |-> None, chi2 |-> None,
              shown |-> FALSE, value |-> None]
        ELSE IF stats.status # "ok"
             THEN [status |-> stats.status, fit_error |-> fit_error,
                   chi2 |-> None, shown |-> FALSE, value |-> None]
             ELSE IF verbose_output /\ ~bound
                  THEN ended("UnboundLocalError", FALSE, None)
                  ELSE IF show /\ ~bound
                       THEN ended("UnboundLocalError", FALSE, None)
                       ELSE IF fit_error # None
                            THEN ended("FitQualityError", show, fit_error)
                            ELSE ended("ok", show,
                                       [fit_results |-> fit,
                                        data_trc |-> setup.data_trc,
                                        burst_model |-> setup.bfunc])

call_fit_trace(file, t0_value, n, pt, show_fig, verbose_output) ==
    /\ \E run \in fit_trace_runs(file, t0_value, n, pt) :
           \E r \in {fit_trace(file, show_fig, verbose_output, run)} :
               ret' = Outcome("fit_trace",
                              <<file, t0_value, n, pt, show_fig,
                                verbose_output>>,
                              r.status, r, FALSE)
    /\ UNCHANGED <<bfVars, shapeVars, fitVars, data_trc, NoT0Val>>

\* the command "single": the arguments parsed from the command line, then
\* the fit of the trace file they name
InitFitTrace ==
    /\ InitBurstFields(0, 1, "PUMP")
    /\ InitFitterIdle
    /\ InitNoT0Val
    /\ InitNoTrace
    /\ \E file \in TraceFiles, t0_value \in T0Vals, n \in 1..MaxFitPulses,
          show_fig \in BOOLEAN, verbose_output \in BOOLEAN :
           ret = Outcome("parse_args",
                         <<file, t0_value, n, "PUMP", show_fig,
                           verbose_output>>,
                         "ok", None, FALSE)

NextFitTrace ==
    /\ ret.op = "parse_args"
    /\ call_fit_trace(ret.arg[1], ret.arg[2], ret.arg[3], ret.arg[4],
                      ret.arg[5], ret.arg[6])

SpecFitTrace == InitFitTrace /\ [][NextFitTrace]_vars

----------------------------------------------------------------------------

(* main_funcs.py, main.py: NoT0Val and batch_fit *)

MaxSentinels == 3   \* most instances of NoT0Val made

\* NoT0Val.__init__ on the class cls: self.num_instances += 1 reads the
\* class attribute and writes an attribute of the new instance, the class
\* attribute stays as it was
NoT0Val_init(cls) ==
    LET own == cls.num_instances + 1
    IN  IF own > 1
        THEN [status |-> "RuntimeError", cls |-> cls]
        ELSE [status |-> "ok",
              cls |-> [cls EXCEPT
                          !.instances = Append(@, [num_instances |-> own])]]

\* NoT0Val()
new_NoT0Val ==
    /\ Len(NoT0Val.instances) < MaxSentinels
    /\ LET r == NoT0Val_init(NoT0Val)
       IN  /\ NoT0Val' = r.cls
           /\ ret' = Outcome("NoT0Val", None, r.status, None, FALSE)
    /\ UNCHANGED <<bfVars, shapeVars, fitVars, data_trc>>

trace_file(stem) == CHOOSE file \in TraceFiles : file.stem = stem

\* manifest files: rows of file name, trace type and, in some, t0.  A row
\* holds the trace file its first cell names and the number its t0 cell
\* reads as (a decimal without sign).
Manifests ==
    {<<<<trace_file("C1trc00000"), "PUMP">>>>,
     <<<<trace_file("C1trc00000"), "PUMP">>,
       <<trace_file("C2trc00000"), "PUMP">>>>,
     <<<<trace_file("C1trc00000"), "PUMP", 0>>>>,
     <<<<trace_file("C1trc00000"), "PUMP", 0>>,
       <<trace_file("C2trc00000"), "PUMP", 1000>>>>,
     <<<<trace_file("C2trc00000"), "PUMP", 1000>>,
       <<trace_file("C1trc00000"), "PUMP", 1000>>>>}

\* args.t0_value: the float given with -t, or the default, a NoT0Val
T0Args ==
    {[type |-> "float", val |-> v] : v \in T0Vals}
        \cup {[type |-> "NoT0Val", val |-> 0]}

\* the arguments of the command "batch"
BatchArgs ==
    [file_manifest : Manifests, get_t0_from_meta : BOOLEAN, t0_value : T0Args,
     n_pulses : 1..MaxFitPulses, plot : BOOLEAN, verbose : {FALSE}]

\* np.loadtxt(args.file_manifest, delimiter=',', unpack=True, dtype=str):
\* the columns of the file; for a file of one row the array has one
\* dimension and each "column" is a single str
load_manifest(manifest) ==
    [ncols |-> IF Len(manifest) = 0 THEN 0 ELSE Len(manifest[1]),
     is_str |-> Len(manifest) = 1,
     rows |-> manifest]

\* batch_fit before its loop: the error raised, or "ok"
batch_fit_check(args) ==
    LET metadata == load_manifest(args.file_manifest)
    IN  IF args.get_t0_from_meta
        THEN IF metadata.ncols # 3 THEN "ValueError"
             ELSE IF args.t0_value.type # "NoT0Val" THEN "ValueError"
                  ELSE "ok"
        ELSE IF metadata.ncols # 2 THEN "ValueError"
             ELSE IF args.t0_value.type = "NoT0Val" THEN "ValueError"
                  ELSE "ok"

\* t0_val of the row idx
batch_t0_val(args, idx) ==
    IF args.get_t0_from_meta THEN args.file_manifest[idx][3]
    ELSE args.t0_value.val

\* the loop of batch_fit from row idx on, runs[idx] being what fit_trace
\* does on the row up to its fit: the fit_trace calls made, how the command
\* ends and whether the output was written
RECURSIVE batch_loop(_, _, _, _)
batch_loop(args, runs, idx, calls) ==
    IF idx > Len(args.file_manifest)
    THEN [status |-> "ok", calls |-> calls, written |-> TRUE]
    ELSE LET row == args.file_manifest[idx]
             t0_val == batch_t0_val(args, idx)
             trace_fit == fit_trace(row[1], args.plot, args.verbose,
                                    runs[idx])
             call == [file |-> row[1], t0_value |-> t0_val,
                      status |-> trace_fit.status]
         IN  IF row[2] \notin TraceType
             THEN [status |-> "AttributeError", calls |-> calls,
                   written |-> FALSE]
             ELSE IF trace_fit.status # "ok"
                  THEN [status |-> trace_fit.status,
                        calls |-> Append(calls, call), written |-> FALSE]
                  ELSE batch_loop(args, runs, idx + 1, Append(calls, call))

\* CommandHandler.batch_fit(args).  Over a manifest of one row zip(fnames,
\* ttypes) pairs the characters of the two strings, and getattr(TraceType,
\* <one character>) raises AttributeError.
batch_fit(args, runs) ==
    IF batch_fit_check(args) # "ok"
    THEN [status |-> batch_fit_check(args), calls |-> << >>,
          written |-> FALSE]
    ELSE IF load_manifest(args.file_manifest).is_str
         THEN [status |-> "AttributeError", calls |-> << >>,
               written |-> FALSE]
         ELSE batch_loop(args, runs, 1, << >>)

\* what the fit_trace calls of the rows from idx on can do up to their fits
RECURSIVE batch_runs_from(_, _)
batch_runs_from(args, idx) ==
    IF idx > Len(args.file_manifest) THEN {<< >>}
    ELSE {<<run>> \o rest :
             run \in fit_trace_runs(args.file_manifest[idx][1],
                                    batch_t0_val(args, idx), args.n_pulses,
                                    args.file_manifest[idx][2]),
             rest \in batch_runs_from(args, idx + 1)}

batch_runs(args) ==
    IF batch_fit_check(args) # "ok" \/ load_manifest(args.file_manifest).is_str
    THEN {<< >>}
    ELSE batch_runs_from(args, 1)

\* parser.parse_args() of the command "batch"; the parser was built with a
\* NoT0Val as the default of -t
parse_args(args) ==
    /\ ret.op = "NoT0Val"
    /\ Len(NoT0Val.instances) >= 1
    /\ ret' = Outcome("parse_args", args, "ok", None, FALSE)
    /\ UNCHANGED <<bfVars, shapeVars, fitVars, data_trc, NoT0Val>>

call_batch_fit(args) ==
    /\ \E runs \in batch_runs(args) :
           \E r \in {batch_fit(args, runs)} :
               ret' = Outcome("batch_fit", args, r.status, r, FALSE)
    /\ UNCHANGED <<bfVars, shapeVars, fitVars, data_trc, NoT0Val>>

\* the program from its start: sentinels are made, the command line is
\* parsed and the batch is fitted
InitMain ==
    /\ InitBurstFields(0, 1, "PUMP")
    /\ InitFitterIdle
    /\ InitNoTrace
    /\ InitNoT0Val
    /\ ret = Outcome("import", None, "ok", None, FALSE)

NextMain ==
    \/ new_NoT0Val
    \/ \E args \in BatchArgs : parse_args(args)
    \/ /\ ret.op = "parse_args"
       /\ call_batch_fit(ret.arg)

SpecMain == InitMain /\ [][NextMain]_vars

----------------------------------------------------------------------------

(* Timing model: claims *)

\* the intra-group offset, from the raw gaps
offset(r) ==
    CASE r = 0 -> 0
      [] r = 1 -> DELTA_1
      [] r = 2 -> DELTA_1 + DELTA_2
      [] r = 3 -> DELTA_1 + DELTA_2 + DELTA_3

\* C2: get_time_from_pulses on an array of indices returns, element by
\* element, PERIOD * floor(n/4) + offset(n mod 4) for every index n >= 0,
\* each element depending on its own index only; with the shipped constants
\* the offsets of pulses 0..3 are 0, 4.98375e-9 s, 9.71625e-9 s and
\* 14.12e-9 s (0, 3987, 7773, 11296 units of 1.25 ps).
C2_TimeFromPulses ==
    ret.op = "get_time_from_pulses" =>
        /\ DOMAIN ret.value = DOMAIN ret.arg
        /\ \A k \in DOMAIN ret.arg :
               ret.arg[k] >= 0 =>
                   /\ ret.value[k] =
                          PERIOD * (ret.arg[k] \div 4) + offset(ret.arg[k] % 4)
                   /\ ret.arg[k] = 0 => ret.value[k] = 0
                   /\ ret.arg[k] = 1 => ret.value[k] = 3987
                   /\ ret.arg[k] = 2 => ret.value[k] = 7773
                   /\ ret.arg[k] = 3 => ret.value[k] = 11296

C2_Witness ==
    /\ ret.op = "get_time_from_pulses"
    /\ ret.arg = <<3, 6>>
    /\ ret.value = <<11296, PERIOD + 7773>>

\* C3: the time of pulse n + 4 is the time of pulse n plus PERIOD, for every
\* pulse index n >= 0.
C3_PeriodShift ==
    ret.op = "get_time_from_pulses" =>
        \A k, l \in DOMAIN ret.arg :
            (ret.arg[k] >= 0 /\ ret.arg[l] = ret.arg[k] + 4) =>
                ret.value[l] = ret.value[k] + PERIOD

C3_Witness ==
    /\ ret.op = "get_time_from_pulses"
    /\ ret.arg = <<3, 7>>
    /\ ret.value[2] = ret.value[1] + PERIOD

\* C4: for every pulse index n >= 0 the time of pulse n is >= 0 and strictly
\* below the time of pulse n + 1, also from the last pulse of a group to the
\* first of the next.
C4_Increasing ==
    ret.op = "get_time_from_pulses" =>
        /\ \A k \in DOMAIN ret.arg : ret.arg[k] >= 0 => ret.value[k] >= 0
        /\ \A k, l \in DOMAIN ret.arg :
               (ret.arg[k] >= 0 /\ ret.arg[l] = ret.arg[k] + 1) =>
                   ret.value[k] < ret.value[l]

C4_Witness ==
    /\ ret.op = "get_time_from_pulses"
    /\ ret.arg = <<3, 4>>
    /\ ret.value[1] < ret.value[2]

----------------------------------------------------------------------------
(* Burst signal model: claims *)

\* the time of pulse n in closed form
time_of(n) == PERIOD * (n \div 4) + offset(n % 4)

\* the normalized pulse shape at one relative time x, current parameters
shape_at(x) ==
    norm_pulse_shape(<<<<x>>>>, parameters, make_performant, parameters,
                     delta_t, h2).value[1][1]

\* C1: get_pulse_matrix(time_vals) returns a matrix with one row per sample
\* time and the columns 0..N-1 of the current pulse count N, whose entry
\* (i, j) is the normalized pulse shape at
\* time_vals[i] - (t0 - trace delay + time of pulse j), from the current t0,
\* N, trace type and shape parameters, whatever was computed before.
C1_PulseMatrix ==
    ret.op = "get_pulse_matrix" =>
        /\ ret.status = "ok"
        /\ DOMAIN ret.value = 1..Len(ret.arg)
        /\ \A i \in 1..Len(ret.arg) :
               /\ DOMAIN ret.value[i] = 0..(n_pulses - 1)
               /\ \A j \in 0..(n_pulses - 1) :
                      ret.value[i][j] =
                          shape_at(ret.arg[i]
                                   - (t0 - TRACE_DELAY_IDX(ptype) + time_of(j)))

\* a matrix of two pulses built after set_t0, set_n_pulses and
\* set_pulse_params have all changed the object
C1_Witness ==
    /\ ret.op = "get_pulse_matrix"
    /\ ret.status = "ok"
    /\ 2 * t0 # 2 * t_start + PULSE_WIDTH
    /\ n_pulses = 2
    /\ parameters # FileParams(ptype)
    /\ ret.arg = <<-1888, 100>>
    /\ ret.value[2][0] # ret.value[2][1]

\* C5: right after construction t_start = t_0 - PULSE_WIDTH/2 and
\* t_end = t_start + the time of pulse index n_pulses, one past the last
\* fitted pulse.
C5_InitWindow ==
    ret.op = "__init__" =>
        /\ t0 = ret.arg[1]
        /\ n_pulses = ret.arg[2]
        /\ 2 * t_start = 2 * ret.arg[1] - PULSE_WIDTH
        /\ t_end = t_start + time_of(ret.arg[2])

C5_Witness ==
    /\ ret.op = "__init__"
    /\ ret.arg[1] = 1000
    /\ ret.arg[2] = MaxPulses
    /\ t_end - t_start = PERIOD * (MaxPulses \div 4) + offset(MaxPulses % 4)

\* C6: after any sequence of accepted set_t0 and set_n_pulses calls the
\* window is re-derived: t_start = get_t0() - PULSE_WIDTH/2 and
\* t_end = t_start + the time of pulse index get_n_pulses().
C6_WindowRederived ==
    /\ 2 * t_start = 2 * t0 - PULSE_WIDTH
    /\ t_end = t_start + time_of(n_pulses)

\* C7: burst_function(time_values, amplitudes) raises ValueError, before any
\* matrix is built, whenever len(amplitudes) differs from the current pulse
\* count; when the lengths agree it returns the product of the regressor
\* matrix with the amplitude vector.
C7_BurstFunction ==
    ret.op = "burst_function" =>
        IF Len(ret.arg[2]) # n_pulses
        THEN /\ ret.status = "ValueError"
             /\ ~ret.built
        ELSE /\ ret.status = "ok"
             /\ ret.built
             /\ ret.value =
                    dot(get_pulse_matrix(ret.arg[1], t0, n_pulses, ptype,
                                         parameters, make_performant,
                                         delta_t, h2).value,
                        ret.arg[2])

\* a model of MaxPulses pulses refuses MaxPulses - 1 amplitudes
C7_Witness ==
    /\ ret.op = "burst_function"
    /\ n_pulses = MaxPulses
    /\ Len(ret.arg[2]) = MaxPulses - 1
    /\ ret.status = "ValueError"
    /\ ~ret.built

----------------------------------------------------------------------------
(* Regression engine: claims *)

\* what C8 and its amended form share: linear_regress_burst raises
\* FitQualityError exactly when the computed R^2 is strictly below the
\* configured threshold (0.95 when none was given), otherwise it returns the
\* stored results; the error names the threshold and the Fitter
threshold_gate ==
    /\ (ret.op = "Fitter.__init__" /\ ~ret.arg.passed) =>
           fit_qual_thresh = 9500
    /\ ret.op = "linear_regress_burst" =>
           /\ ret.status \in {"ok", "FitQualityError"}
           /\ results # None
           /\ (ret.status = "FitQualityError") <=>
                  (results[1].rsquared < fit_qual_thresh)
           /\ ret.status = "ok" => ret.value = results
           /\ ret.status = "FitQualityError" =>
                  /\ ret.value.thresh_text = fit_qual_thresh
                  /\ ret.value.name = name

\* C8 as stated: linear_regress_burst raises FitQualityError exactly when
\* R^2 is strictly below the threshold (0.95 by default, R^2 equal to it is
\* accepted) and otherwise returns the results; the error carries the
\* computed R^2, the threshold and the Fitter's name.
C8_CarriesComputedR2 ==
    /\ threshold_gate
    /\ (ret.op = "linear_regress_burst" /\ ret.status = "FitQualityError") =>
           10 * ret.value.r2_text = results[1].rsquared

\* C8 amended: as C8, but the error carries the computed R^2 rounded to
\* three decimals (the text of its message), not the computed value.
C8_CarriesRoundedR2 ==
    /\ threshold_gate
    /\ (ret.op = "linear_regress_burst" /\ ret.status = "FitQualityError") =>
           Abs(10 * ret.value.r2_text - results[1].rsquared) <= 5

\* a fit exactly at the default threshold 0.95 is returned
C8_Witness ==
    /\ ret.op = "linear_regress_burst"
    /\ ret.status = "ok"
    /\ fit_qual_thresh = DEFAULT_THRESH
    /\ results[1].rsquared = DEFAULT_THRESH

\* C9: when linear_regress_burst raises FitQualityError, the regression of
\* that call is already stored on the Fitter (results is not None and is
\* the fit of this call's trace, the one the error reports), and a
\* get_chi2_stats call that follows succeeds on it.
C9_RejectedFitStored ==
    /\ [](  (ret.op = "linear_regress_burst" /\ ret.status = "FitQualityError") =>
                /\ results # None
                /\ results[1].endog = ret.arg.data_values
                /\ results[1].exog =
                       get_pulse_matrix(ret.arg.time_values, t0, n_pulses,
                                        ptype, parameters, make_performant,
                                        delta_t, h2).value
                /\ results[1].rsquared < fit_qual_thresh
                /\ format_3f(results[1].rsquared) = ret.value.r2_text)
    /\ [][ (/\ ret.op = "linear_regress_burst"
            /\ ret.status = "FitQualityError"
            /\ ret'.op = "get_chi2_stats") =>
               /\ ret'.status # "AttributeError"
               /\ broadcastable(results[1].nobs, Len(ret'.arg)) =>
                      /\ ret'.status = "ok"
                      /\ ret'.value[2].chi2 =
                             chi2_sum(results[1].resid, ret'.arg, 1) ]_vars

\* a rejected fit of the three-sample trace, stored
C9_Witness ==
    /\ ret.op = "linear_regress_burst"
    /\ ret.status = "FitQualityError"
    /\ results # None
    /\ results[1].endog = <<Const(3), Const(1), Const(1)>>
    /\ results[1].rsquared = 9496

\* the product of the squared uncertainties of samples i..n
RECURSIVE err_sq_prod(_, _, _)
err_sq_prod(errs, n, i) ==
    IF i > n THEN 1
    ELSE elem(errs, i) * elem(errs, i) * err_sq_prod(errs, n, i + 1)

\* sum_i resid_i^2 / err_i^2, times the product of all squared uncertainties
RECURSIVE weighted_sq_sum(_, _, _, _)
weighted_sq_sum(resid, errs, n, i) ==
    IF i > n THEN 0
    ELSE elem(resid, i) * elem(resid, i)
             * (err_sq_prod(errs, n, 1) \div (elem(errs, i) * elem(errs, i)))
         + weighted_sq_sum(resid, errs, n, i + 1)

\* C10: get_chi2_stats on a Fitter with no fit raises AttributeError and
\* returns nothing; once linear_regress_burst has run the fit stays stored
\* and get_chi2_stats returns (reduced_chi2, p_value) of the stored fit, with
\* reduced_chi2 = sum(resid_i^2 / err_i^2) / residual degrees of freedom.
C10_Chi2Stats ==
    /\ [](ret.op = "linear_regress_burst" => results # None)
    /\ [][results # None => results' # None]_vars
    /\ [](ret.op = "get_chi2_stats" =>
            IF results = None
            THEN /\ ret.status = "AttributeError"
                 /\ ret.value = None
            ELSE /\ ret.status # "AttributeError"
                 /\ broadcastable(results[1].nobs, Len(ret.arg)) =>
                        /\ ret.status = "ok"
                        /\ ret.value[2].df = results[1].df_resid
                        /\ results[1].df_resid > 0 =>
                               LET n == broadcast_len(results[1].nobs,
                                                      Len(ret.arg))
                               IN  ret.value[1].num * results[1].df_resid
                                       * err_sq_prod(ret.arg, n, 1)
                                   = ret.value[1].den
                                       * weighted_sq_sum(results[1].resid,
                                                         ret.arg, n, 1))

\* residuals 1, 2, 3 with uncertainties 2, 2, 2 and two degrees of freedom:
\* chi2 = 14/4, reduced chi2 = 7/4
C10_Witness ==
    /\ ret.op = "get_chi2_stats"
    /\ ret.status = "ok"
    /\ results # None
    /\ results[1].resid = <<1, 2, 3>>
    /\ results[1].df_resid = 2
    /\ ret.arg = <<2, 2, 2>>
    /\ ret.value[1] = [num |-> 7, den |-> 4]

----------------------------------------------------------------------------
(* Round trip: claims *)

----------------------------------------------------------------------------
(* Pulse count: claims *)

\* C18: the pulse count is an integer >= 1 in every reachable state: a
\* non-positive count handed to the constructor or to set_n_pulses is
\* rejected with an error, leaving the stored count as it was.
C18_PositiveCount ==
    /\ n_pulses >= 1
    /\ (ret.op = "set_n_pulses" /\ ret.arg.val < 1) => ret.status = "ValueError"

----------------------------------------------------------------------------
(* Pulse shape: claims *)

\* the Gaussian core exp(-t^2 / (2 sigma^2))
gaussian_core(t, sig) == ExpNeg(t * t, 2 * sig * sig)

\* the exponential tail h * exp(-lambda * (t - delta_t)), with
\* delta_t = lambda * sigma^2 and h = exp(-delta_t^2 / (2 sigma^2))
exponential_tail(t, sig, lam) ==
    LET dt == Rat(lam * sig * sig, LAM_DEN)
    IN  ExpProd(ExpNeg(dt.num * dt.num, 2 * sig * sig * dt.den * dt.den),
                ExpNeg(lam * (t * dt.den - dt.num), LAM_DEN * dt.den))

\* t < delta_t = lambda * sigma^2
before_transition(t, sig, lam) == t * LAM_DEN < lam * sig * sig

\* the shape of the claim at every element of the call recorded in ret
piecewise_shape ==
    LET t == ret.arg[1]
        sig == ret.arg[2][1]
        lam == ret.arg[2][2]
    IN  /\ DOMAIN ret.value = DOMAIN t
        /\ \A k \in DOMAIN t :
               ret.value[k] = IF before_transition(t[k], sig, lam)
                              THEN gaussian_core(t[k], sig)
                              ELSE exponential_tail(t[k], sig, lam)

\* C12 as stated: pulse_shape(t, sigma, lambda) returns the Gaussian core
\* for every t < delta_t and the exponential tail for every t >= delta_t,
\* also exactly at t = delta_t.
C12_PiecewiseShape ==
    (ret.op = "pulse_shape" /\ ret.status = "ok") => piecewise_shape

\* C12 amended: so it is with make_performant off; with make_performant on
\* the arguments sigma and lambda are not used, the shape is taken from the
\* stored parameters and the stored delta_t and h2.
C12_PiecewiseShapeChecked ==
    (ret.op = "pulse_shape" /\ ret.status = "ok" /\ ~make_performant) =>
        piecewise_shape

\* a call at the transition point 100 of (400, 1) and after it
C12_Witness ==
    /\ ret.op = "pulse_shape"
    /\ ret.status = "ok"
    /\ ~make_performant
    /\ ret.arg = <<<<100, 800>>, <<400, 1>>>>
    /\ ret.value[1] = [num |-> 1, den |-> 32]
    /\ ret.value[2] = exponential_tail(800, 400, 1)

\* d/dt of the logarithm of each branch: the branch's derivative is this
\* slope times its value
gaussian_log_slope(t, sig) == Rat(-t, sig * sig)

exp_tail_log_slope(lam) == Rat(-lam, LAM_DEN)

\* C13: for sigma > 0 and lambda > 0 the two branches agree at the
\* transition point delta_t = lambda * sigma^2 in value (both are h) and in
\* first derivative, and the shape evaluated there is h.
C13_SmoothAtTransition ==
    LET sig == ret.arg[2][1]
        lam == ret.arg[2][2]
        dt  == shape_delta_t(sig, lam)
        h   == shape_h2(dt, sig)
        at_dt == shape_parts(dt.num, sig, lam, dt, h)
    IN  (ret.op = "pulse_shape" /\ sig > 0 /\ lam > 0 /\ dt.den = 1) =>
            /\ at_dt.gaussian = h
            /\ at_dt.exp_tail = h
            /\ gaussian_log_slope(dt.num, sig) = exp_tail_log_slope(lam)
            /\ (ret.status = "ok" /\ ~make_performant) =>
                   \A k \in DOMAIN ret.arg[1] :
                       ret.arg[1][k] = dt.num => ret.value[k] = h

\* the shape of (800, 2) evaluated at its transition point 800
C13_Witness ==
    /\ ret.op = "pulse_shape"
    /\ ret.status = "ok"
    /\ ~make_performant
    /\ ret.arg = <<<<100, 800>>, <<800, 2>>>>
    /\ ret.value[2] = [num |-> 1, den |-> 2]

\* a parameter pair inside param_bounds
InParamBounds(params) ==
    /\ SIGMA_MIN <= params[1] /\ params[1] <= SIGMA_MAX
    /\ LAMBDA_MIN <= params[2] /\ params[2] <= LAMBDA_MAX

tail_overflows(t, sig, lam) ==
    LET dt == Rat(lam * sig * sig, LAM_DEN)
    IN  lam * (dt.num - t * dt.den) >= EXP_OVERFLOW * LAM_DEN * dt.den

\* C15: with make_performant off pulse_shape raises ValueError, and returns
\* no value, whenever the exponential tail is not finite for any element of
\* the input (and only then); with make_performant on the validation is
\* skipped and a value is returned without error.
C15_OverflowPolicy ==
    ret.op = "pulse_shape" =>
        IF make_performant
        THEN /\ ret.status = "ok"
             /\ DOMAIN ret.value = DOMAIN ret.arg[1]
        ELSE /\ (ret.status = "ValueError") <=>
                    (\E k \in DOMAIN ret.arg[1] :
                         tail_overflows(ret.arg[1][k], ret.arg[2][1],
                                        ret.arg[2][2]))
             /\ ret.status = "ValueError" => ret.value = None
             /\ ret.status \in {"ok", "ValueError"}

\* only the second element overflows: refused
C15_Witness ==
    /\ ret.op = "pulse_shape"
    /\ ~make_performant
    /\ ret.arg = <<<<0, -1000>>, <<8, 2000>>>>
    /\ ret.status = "ValueError"
    /\ ret.value = None

\* C16: set_pulse_params and set_params with a vector whose length differs
\* from the declared parameter count raise ValueError and leave the stored
\* parameters unchanged; an accepted assignment stores exactly the given
\* values; the stored vector always has the declared length.
C16_ParamLength ==
    /\ [](Len(parameters) = param_num)
    /\ [](ret.op \in {"set_pulse_params", "set_params"} =>
            IF Len(ret.arg) # param_num
            THEN ret.status = "ValueError"
            ELSE ret.status = "ok" /\ parameters = ret.arg)
    /\ [][ (ret'.op \in {"set_pulse_params", "set_params"}
              /\ ret'.status = "ValueError") =>
               parameters' = parameters ]_vars

C16_Witness ==
    /\ ret.op = "set_pulse_params"
    /\ ret.arg = <<400, 1, 1>>
    /\ ret.status = "ValueError"
    /\ parameters = <<800, 2>>
    /\ param_num = 2

\* C17: in every reachable state the derived quantities belong to the
\* stored parameters: delta_t = lambda * sigma^2 and
\* h2 = exp(-delta_t^2 / (2 sigma^2)).
C17_DerivedCurrent ==
    /\ delta_t = Rat(parameters[2] * parameters[1] * parameters[1], LAM_DEN)
    /\ h2 = ExpNeg(delta_t.num * delta_t.num,
                   2 * parameters[1] * parameters[1] * delta_t.den * delta_t.den)

----------------------------------------------------------------------------
(* DataTrace: claims *)

\* a trace whose two arrays are 1-dimensional and of the length trace_len
well_formed(trc) ==
    /\ trc.time_values.ndim = 1
    /\ trc.data_values.ndim = 1
    /\ size(trc.time_values) = trc.trace_len
    /\ size(trc.data_values) = trc.trace_len

\* C19: after construction and after any sequence of set_time_values,
\* set_data_values and make_restricted calls the time array and the data
\* array of a DataTrace are 1-dimensional and of the same length, trace_len;
\* an input that would break this is rejected with ValueError.
C19_SameLength ==
    /\ well_formed(data_trc)
    /\ (ret.op = "make_restricted" /\ ret.status = "ok") => well_formed(ret.value)
    /\ (/\ ret.op \in {"set_time_values", "set_data_values"}
        /\ (ret.arg.ndim # 1 \/ size(ret.arg) # data_trc.trace_len)) =>
           ret.status = "ValueError"

\* the positions of the trace whose time lies in [tstart, tend]
inside(trc, tstart, tend) ==
    {i \in 1..size(trc.time_values) :
        tstart <= trc.time_values.vals[i] /\ trc.time_values.vals[i] <= tend}

\* C20: make_restricted(t_start, t_end) returns a new DataTrace holding
\* exactly the (time, value) pairs of the original with
\* t_start <= time <= t_end, in the original order, with the unit labels of
\* the original, and leaves the original trace (time values, data values,
\* trace_len, iteration cursor) unchanged.
C20_Restricted ==
    [][ ret'.op = "make_restricted" =>
          /\ data_trc' = data_trc
          /\ ret'.status = "ok"
          /\ LET new == ret'.value
                 keep == inside(data_trc, ret'.arg[1], ret'.arg[2])
             IN  /\ new.trace_len = Cardinality(keep)
                 /\ size(new.time_values) = Cardinality(keep)
                 /\ size(new.data_values) = Cardinality(keep)
                 /\ \A k \in 1..Cardinality(keep) :
                        /\ new.time_values.vals[k] =
                               data_trc.time_values.vals[Sorted(keep)[k]]
                        /\ new.data_values.vals[k] =
                               data_trc.data_values.vals[Sorted(keep)[k]]
                 /\ new.time_units = data_trc.time_units
                 /\ new.data_units = data_trc.data_units ]_vars

----------------------------------------------------------------------------
(* Goodness-of-fit statistics: claims *)

non_constant(y) == \E i, j \in 1..Len(y) : y[i] # y[j]

RECURSIVE sum_prod(_, _, _)
sum_prod(a, b, i) ==
    IF i > Len(a) THEN 0 ELSE a[i] * b[i] + sum_prod(a, b, i + 1)

\* SS_res = sum((observed - modeled)^2), expanded
ss_res(observed, modeled) ==
    sum_prod(observed, observed, 1) - 2 * sum_prod(observed, modeled, 1)
        + sum_prod(modeled, modeled, 1)

\* n * SS_tot = n * sum(observed^2) - sum(observed)^2
n_ss_tot(observed) ==
    Len(observed) * sum_prod(observed, observed, 1)
        - arr_sum(observed, 1) * arr_sum(observed, 1)

\* C21: get_r2(observed, modeled) = 1 - SS_res / SS_tot, with
\* SS_res = sum((observed - modeled)^2) and
\* SS_tot = sum((observed - mean(observed))^2), that is
\* (1 - R^2) * SS_tot = SS_res wherever SS_tot is not 0; get_r2(y, y) = 1 for
\* every y that is not constant.
C21_R2 ==
    (ret.op = "get_r2" /\ non_constant(ret.arg[1])) =>
        LET observed == ret.arg[1]
            modeled == ret.arg[2]
            r2 == ret.value
        IN  /\ r2.den > 0
            /\ (r2.den - r2.num) * n_ss_tot(observed)
                   = r2.den * Len(observed) * ss_res(observed, modeled)
            /\ observed = modeled => r2 = Rat(1, 1)

C21_Witness ==
    /\ ret.op = "get_r2"
    /\ Len(ret.arg[1]) = 3
    /\ non_constant(ret.arg[1])
    /\ ret.arg[1] = ret.arg[2]
    /\ ret.value = Rat(1, 1)

\* C22: get_adj_r2(observed, modeled, n_pulses) fails with an error whenever
\* n_pulses >= n, n the number of samples, and returns no value; for
\* n_pulses < n it returns 1 - (1 - R^2) * (n - 1) / (n - n_pulses + 1).
C22_AdjR2Domain ==
    ret.op = "get_adj_r2" =>
        LET observed == ret.arg[1]
            n == Len(observed)
            k == ret.arg[3]
            r2 == get_r2(observed, ret.arg[2])
            d == n - k + 1
            adj == ret.value
        IN  IF k >= n
            THEN ret.status = "DomainError"
            ELSE /\ ret.status = "ok"
                 /\ non_constant(observed) =>
                        /\ adj.den > 0
                        /\ adj.num * (r2.den * d)
                               = adj.den * (r2.den * d
                                            - (r2.den - r2.num) * (n - 1))

----------------------------------------------------------------------------
(* Threshold: claims *)

\* the threshold a constructor or setter call was given
thresh_given(r) ==
    IF r.op = "set_rsquared_thresh" THEN r.arg
    ELSE IF r.arg.passed
         THEN [type |-> r.arg.type, val |-> r.arg.val]
         ELSE [type |-> "float", val |-> DEFAULT_THRESH]

valid_thresh(th) ==
    th.type = "float" /\ THRESH_MIN <= th.val /\ th.val <= THRESH_MAX

\* C23: the threshold of a Fitter is a float in [0, 1] in every reachable
\* state: Fitter(...) and set_rsquared_thresh raise ValueError for a value
\* that is not a float or lies outside [0, 1], a refused set_rsquared_thresh
\* leaves the threshold as it was, a refused construction makes no Fitter,
\* and the threshold only ever becomes a valid float that was given.
C23_ThreshValid ==
    /\ [](THRESH_MIN <= fit_qual_thresh /\ fit_qual_thresh <= THRESH_MAX)
    /\ [][ /\ ret'.op \in {"set_rsquared_thresh", "Fitter.__init__"} =>
               IF valid_thresh(thresh_given(ret'))
               THEN /\ ret'.status = "ok"
                    /\ fit_qual_thresh' = thresh_given(ret').val
               ELSE /\ ret'.status = "ValueError"
                    /\ UNCHANGED fitVars
           /\ fit_qual_thresh' # fit_qual_thresh =>
                  /\ ret'.op \in {"set_rsquared_thresh", "Fitter.__init__"}
                  /\ valid_thresh(thresh_given(ret')) ]_vars

\* a set_rsquared_thresh(1.0001) refused on a Fitter whose threshold had
\* been set to 0.5
C23_Witness ==
    /\ ret.op = "set_rsquared_thresh"
    /\ ret.status = "ValueError"
    /\ ret.arg.type = "float"
    /\ ret.arg.val > THRESH_MAX
    /\ fit_qual_thresh = 5000

----------------------------------------------------------------------------
(* fit_trace: claims *)

\* C24: in fit_trace, when linear_regress_burst raises FitQualityError, the
\* call still computes the chi-squared statistics, displays the plot of the
\* refused fit, and only then ends by raising FitQualityError; no other
\* exception leaves the call on this path and no result dict is returned.
C24_RejectedFitShown ==
    (ret.op = "fit_trace" /\ ret.value.fit_error # None) =>
        /\ ret.value.chi2 # None
        /\ ret.value.shown
        /\ ret.status = "FitQualityError"
        /\ ret.value.value = ret.value.fit_error

----------------------------------------------------------------------------
(* batch_fit and NoT0Val: claims *)

\* C25: batch_fit takes t0 from exactly one source: when t0 values are
\* asked from the manifest and a command-line t0 is given too, or when
\* neither is given, it raises ValueError before any trace is fitted or any
\* output is written; with exactly one source (and a manifest of the
\* columns asked for) every trace is fitted, in the order of the rows, with
\* the manifest t0 of its own row or with the common command-line t0, up to
\* a trace whose fit fails.
C25_OneT0Source ==
    ret.op = "batch_fit" =>
        LET args == ret.arg
            rows == args.file_manifest
            given == args.t0_value.type = "float"
            calls == ret.value.calls
        IN  IF args.get_t0_from_meta = given
            THEN /\ ret.status = "ValueError"
                 /\ calls = << >>
                 /\ ~ret.value.written
            ELSE Len(rows[1]) = (IF args.get_t0_from_meta THEN 3 ELSE 2) =>
                     /\ Len(calls) <= Len(rows)
                     /\ \A k \in 1..Len(calls) :
                            /\ calls[k].file = rows[k][1]
                            /\ calls[k].t0_value =
                                   IF args.get_t0_from_meta THEN rows[k][3]
                                   ELSE args.t0_value.val
                     /\ \/ Len(calls) = Len(rows) /\ ret.value.written
                        \/ /\ Len(calls) >= 1
                           /\ calls[Len(calls)].status # "ok"

\* C26: NoT0Val can be instantiated at most once per process: the first
\* construction succeeds and every later construction raises RuntimeError.
C26_SingleSentinel ==
    /\ [](Len(NoT0Val.instances) <= 1)
    /\ [][ ret'.op = "NoT0Val" =>
               IF Len(NoT0Val.instances) = 0
               THEN ret'.status = "ok"
               ELSE ret'.status = "RuntimeError" ]_vars

----------------------------------------------------------------------------
(* DataTrace iteration: claims *)

\* C27: iterating a DataTrace yields the pairs (time[i], value[i]) for
\* i = 0, ..., trace_len - 1 in that order and then stops; the cursor stays
\* within 0..trace_len in every state; __iter__ does not reset it, so an
\* exhausted trace yields no item on a later iteration.
C27_Iteration ==
    /\ [](0 <= data_trc.current_idx
            /\ data_trc.current_idx <= data_trc.trace_len)
    /\ [][ /\ ret'.op = "__iter__" => data_trc' = data_trc
           /\ ret'.op = "__next__" =>
                  IF data_trc.current_idx < data_trc.trace_len
                  THEN /\ ret'.status = "ok"
                       /\ ret'.value =
                              <<data_trc.time_values.vals[
                                    data_trc.current_idx + 1],
                                data_trc.data_values.vals[
                                    data_trc.current_idx + 1]>>
                       /\ data_trc' = [data_trc EXCEPT !.current_idx = @ + 1]
                  ELSE /\ ret'.status = "StopIteration"
                       /\ data_trc' = data_trc ]_vars

----------------------------------------------------------------------------
(* Window and pulse centres: claims *)

\* the centre of pulse j, as get_pulse_matrix places it
pulse_centre(j) == t0 - TRACE_DELAY_IDX(ptype) + time_from_pulse(j)

\* C28: for every BurstFunction constructed with N >= 1 pulses (the trace
\* delay being 0 for every trace type) each pulse centre
\* t0 - trace_delay + get_time_from_pulses(j), j in 0..N-1, lies inside the
\* window [t_start, t_end] derived at construction.
C28_CentresInWindow ==
    (ret.op = "__init__" /\ n_pulses >= 1) =>
        \A j \in 0..(n_pulses - 1) :
            t_start <= pulse_centre(j) /\ pulse_centre(j) <= t_end

\* a construction with four pulses: the last centre lies within DELTA_4 of
\* the end of the window
C28_Witness ==
    /\ ret.op = "__init__"
    /\ n_pulses = 4
    /\ ptype = "TRANSMITTED"
    /\ t_start <= pulse_centre(0)
    /\ pulse_centre(3) <= t_end
    /\ pulse_centre(3) > t_end - DELTA_4

====
